---- MODULE Spec2Model ----
(***************************************************************************)
(* Model of the amo workflow scripts: text extraction, receipt processor,  *)
(* contract review (src/workflows/text-extraction.js) and the video to     *)
(* audio converter (src/unnamed/part_000).  One run of main() of one       *)
(* pipeline is a state machine over the host file system, the external     *)
(* tools and the console.                                                  *)
(***************************************************************************)
EXTENDS Integers, Sequences, FiniteSets, TLC

VARIABLES
    pipeline,           \* which script runs: "text", "receipt", "review", "media"
    vars,               \* getVar(...) values that gate main(): [cfg]
    overwrite,          \* getVar("overwrite") === "true"
    inputPath,          \* getVar("input"), <<>> when not given
    outputPath,         \* getVar("output"), replaced by the validated path
    isBatchProcessing,  \* fs.isDir(inputPath)
    fsys,               \* the host file system: absolute path -> node
    fsys0,              \* the file system when the run started
    pc,                 \* position of main(): start, probe, discover, loop, summary, done
    documentFiles,      \* the discovered list (documentFiles / videoFiles)
    listErr,            \* the directory listing of discovery returned an error
    idx,                \* loop variable i (1-based)
    successCount,
    failureCount,
    skippedCount,
    allReceipts,        \* receipt pipeline: records collected for the summary
    visited,            \* per visited file: [file, out, result]
    calls,              \* cliCommand events: [ev, tool, kind, file]
    probes,             \* availability checks made: [tool, error, out, ok]
    stages,             \* text extraction of each processed file, see Stage
    msgs,               \* console.error tags printed so far
    now,                \* wall clock (new Date())
    summaryFiles,       \* createSummaryFile result
    ret,                \* value returned by main(): "none", "true", "false"
    earlier,            \* what the run of main() before this one left, see NoRun
    callee,             \* the helper function called on its own, "main" in a run of main()
    argument,           \* what it is called with
    returned            \* [done, value]: what it returned

mvars == <<pipeline, vars, overwrite, inputPath, outputPath, isBatchProcessing,
           fsys, fsys0, pc, documentFiles, listErr, idx, successCount,
           failureCount, skippedCount, allReceipts, visited, calls, probes, stages,
           msgs, now, summaryFiles, ret, earlier, callee, argument, returned>>

\* the variables of a run of main()
runvars == <<pipeline, vars, overwrite, inputPath, outputPath, isBatchProcessing,
             fsys, fsys0, pc, documentFiles, listErr, idx, successCount,
             failureCount, skippedCount, allReceipts, visited, calls, probes, stages,
             msgs, now, summaryFiles, ret, earlier>>
\* the variables of a helper function called on its own
callvars == <<callee, argument, returned>>

\* main() has not run before
NoRun == [ran |-> FALSE, visited |-> <<>>, fsys |-> <<>>]

NotYet == [done |-> FALSE, value |-> <<>>]
Done(v) == [done |-> TRUE, value |-> v]

----------------------------------------------------------------------------
(* Bounds of the model *)

\* at most this many direct entries in the input directory
MaxFiles == 3

----------------------------------------------------------------------------
(* Paths.  A path is a sequence of components; a component is a name split *)
(* at its last dot, as fs.basename / fs.ext split it.  An absolute path    *)
(* starts with the root component.                                         *)

N(b, e) == [base |-> b, ext |-> e]
RootC == N("/", "")
IsAbsPath(p) == Len(p) > 0 /\ p[1] = RootC
Cwd == <<RootC, N("work", "")>>
NoPath == <<>>

Last(s) == s[Len(s)]
Front(s) == SubSeq(s, 1, Len(s) - 1)

\* fs.abs: a relative path is resolved against the working directory
fsAbs(p) == IF IsAbsPath(p) THEN p ELSE Cwd \o p
\* fs.join([dir, name])
fsJoin(d, c) == Append(d, c)
\* fs.dirname: the directory of a relative name is the working directory,
\* written <<>>
fsDirname(p) == IF p = <<RootC>> THEN p ELSE Front(p)
\* fs.ext: the extension with its leading dot, "" when there is none
fsExt(p) == Last(p).ext
\* fs.basename: the file name without its extension
fsBasename(p) == Last(p).base
\* String.prototype.toLowerCase on the extensions of the model
toLowerCase(e) ==
    CASE e = ".PDF" -> ".pdf"
      [] e = ".MP4" -> ".mp4"
      [] e = ".XYZ" -> ".xyz"
      [] OTHER -> e

----------------------------------------------------------------------------
(* File system nodes *)

\* a parsed JSON value, kept as what JSON.stringify writes of it: its kind,
\* the originating file name, the discriminant "type-code" (a string of
\* characters, <<>> when there is none) and the extraction timestamp
NoRec == [kind |-> "object", source_file |-> "", type_code |-> <<>>, stamp |-> 0]
DirNode == [dir |-> TRUE, k |-> "dir", rec |-> NoRec, list |-> <<>>]
FileNode(k, r) == [dir |-> FALSE, k |-> k, rec |-> r, list |-> <<>>]
\* a summary file holding the records of one group
ListNode(k, l) == [dir |-> FALSE, k |-> k, rec |-> NoRec, list |-> l]
\* a source document or video
SrcNode == FileNode("src", NoRec)
\* text produced by doc-to-text for the document named b
TextNode(k, b) == FileNode(k, [NoRec EXCEPT !.source_file = b])

fsExists(fs, p) == fsAbs(p) \in DOMAIN fs
fsIsDir(fs, p) == fsExists(fs, p) /\ fs[fsAbs(p)].dir
fsIsFile(fs, p) == fsExists(fs, p) /\ ~fs[fsAbs(p)].dir

Prefixes(p) == {SubSeq(p, 1, n) : n \in 1..(Len(p) - 1)}
\* a node put at p, with the directories above it
Put(fs, p, node) ==
    LET a == fsAbs(p)
        up == Prefixes(a) \ DOMAIN fs
    IN  [q \in (DOMAIN fs) \cup up \cup {a} |->
            IF q = a THEN node
            ELSE IF q \in up THEN DirNode
            ELSE fs[q]]
\* fs.mkdir that succeeded
fsMkdir(fs, p) == Put(fs, p, DirNode)
\* fs.write that succeeded
fsWrite(fs, p, node) == Put(fs, p, node)
\* fs.rm
fsRm(fs, p) == [q \in (DOMAIN fs) \ {fsAbs(p)} |-> fs[q]]
\* direct entries of a directory, as fs.readdir lists them
Children(fs, d) == {q \in DOMAIN fs : Len(q) = Len(fsAbs(d)) + 1 /\ Front(q) = fsAbs(d)}
\* everything below a directory, as fs.find walks it
Descendants(fs, d) ==
    {q \in DOMAIN fs : Len(q) > Len(fsAbs(d)) /\ SubSeq(q, 1, Len(fsAbs(d))) = fsAbs(d)}

----------------------------------------------------------------------------
(* Order of paths.  Array.prototype.sort() without comparator orders the   *)
(* path strings by UTF-16 code units.  The code units of the names of the  *)
(* model are tabled here: a base is a stem followed by middle parts.       *)

Stems == {"/", "B", "a", "d", "e", "gone", "in", "new", "out", "receipts_invoice",
          "receipts_unknown", "sub", "text", "total", "work"}
FileStems == {"B", "a", "d", "e"}
Middles == {"", ".extracted", ".receipt", ".review", "_md5",
            "1", "2", "3", "4", "5", "6", "7", "8", "9"}

StemCodes(st) ==
    CASE st = "/" -> <<>>
      [] st = "B" -> <<66>>
      [] st = "a" -> <<97>>
      [] st = "d" -> <<100>>
      [] st = "e" -> <<101>>
      [] st = "gone" -> <<103, 111, 110, 101>>
      [] st = "in" -> <<105, 110>>
      [] st = "new" -> <<110, 101, 119>>
      [] st = "out" -> <<111, 117, 116>>
      [] st = "receipts_invoice" -> <<114, 101, 99, 101, 105, 112, 116, 115, 95, 105>>
      [] st = "receipts_unknown" -> <<114, 101, 99, 101, 105, 112, 116, 115, 95, 117>>
      [] st = "sub" -> <<115, 117, 98>>
      [] st = "text" -> <<116, 101, 120, 116>>
      [] st = "total" -> <<116, 111, 116, 97, 108>>
      [] OTHER -> <<119, 111, 114, 107>>

MiddleCodes(m) ==
    CASE m = "" -> <<>>
      [] m = ".extracted" -> <<46, 101, 120, 116>>
      [] m = ".receipt" -> <<46, 114, 101, 99>>
      [] m = ".review" -> <<46, 114, 101, 118>>
      [] m = "_md5" -> <<95, 109, 100, 53>>
      [] m = "1" -> <<49>>
      [] m = "2" -> <<50>>
      [] m = "3" -> <<51>>
      [] m = "4" -> <<52>>
      [] m = "5" -> <<53>>
      [] m = "6" -> <<54>>
      [] m = "7" -> <<55>>
      [] m = "8" -> <<56>>
      [] OTHER -> <<57>>

ExtCodes(e) ==
    CASE e = "" -> <<>>
      [] e = ".MP4" -> <<46, 77, 80, 52>>
      [] e = ".PDF" -> <<46, 80, 68, 70>>
      [] e = ".csv" -> <<46, 99, 115, 118>>
      [] e = ".json" -> <<46, 106, 115, 111, 110>>
      [] e = ".mp3" -> <<46, 109, 112, 51>>
      [] e = ".mp4" -> <<46, 109, 112, 52>>
      [] e = ".pdf" -> <<46, 112, 100, 102>>
      [] e = ".txt" -> <<46, 116, 120, 116>>
      [] OTHER -> <<46, 120, 121, 122>>

\* the code units of a name that is a stem and two middle parts (split),
\* or a stem and three
SplitCodes(c, split) ==
    IF split # {}
    THEN LET sm == CHOOSE sm \in split : TRUE
         IN  StemCodes(sm[1]) \o MiddleCodes(sm[2]) \o MiddleCodes(sm[3])
                 \o ExtCodes(c.ext)
    ELSE LET sm == CHOOSE sm \in FileStems \X Middles \X Middles \X Middles :
                       sm[1] \o sm[2] \o sm[3] \o sm[4] = c.base
         IN  StemCodes(sm[1]) \o MiddleCodes(sm[2]) \o MiddleCodes(sm[3])
                 \o MiddleCodes(sm[4]) \o ExtCodes(c.ext)

\* the code units of one name
NameCodes(c) ==
    IF c.base \in Stems THEN StemCodes(c.base) \o ExtCodes(c.ext)
    ELSE SplitCodes(c, {sm \in FileStems \X Middles \X Middles :
                           sm[1] \o sm[2] \o sm[3] = c.base})

\* the code units of a path: its names, each after a "/"
RECURSIVE PathCodes(_)
PathCodes(p) ==
    IF p = <<>> THEN <<>>
    ELSE IF p[1] = RootC THEN PathCodes(Tail(p))
    ELSE <<47>> \o NameCodes(p[1]) \o PathCodes(Tail(p))

RECURSIVE CodesLess(_, _)
CodesLess(a, b) ==
    IF b = <<>> THEN FALSE
    ELSE IF a = <<>> THEN TRUE
    ELSE IF a[1] = b[1] THEN CodesLess(Tail(a), Tail(b))
    ELSE a[1] < b[1]

\* p < q as strings
PathLess(p, q) == CodesLess(PathCodes(p), PathCodes(q))

RECURSIVE Insert(_, _)
Insert(x, s) ==
    IF s = <<>> THEN <<x>>
    ELSE IF PathLess(s[1], x) THEN <<s[1]>> \o Insert(x, Tail(s))
    ELSE <<x>> \o s

\* files.sort()
RECURSIVE Sort(_)
Sort(s) == IF s = <<>> THEN <<>> ELSE Insert(s[1], Sort(Tail(s)))

IsSorted(s) == \A m \in 1..(Len(s) - 1) : PathLess(s[m], s[m + 1])

Range(s) == {s[m] : m \in 1..Len(s)}

----------------------------------------------------------------------------
(* Discovery *)

documentExtensions ==
    {".pdf", ".docx", ".doc", ".txt", ".png", ".jpg", ".jpeg", ".gif", ".bmp", ".tiff"}

videoExtensions ==
    {".mp4", ".avi", ".mov", ".mkv", ".wmv", ".flv", ".webm", ".m4v", ".mpg",
     ".mpeg", ".3gp", ".asf", ".rm", ".rmvb", ".vob", ".ts", ".mts"}

\* text extraction and contract review
isDocumentFile(filepath, exts) == toLowerCase(fsExt(filepath)) \in exts

\* receipt processor: a file without extension is rejected first
isReceiptDocumentFile(filepath, exts) ==
    IF fsExt(filepath) = "" THEN FALSE
    ELSE toLowerCase(fsExt(filepath)) \in exts

isVideoFile(filepath, exts) == toLowerCase(fsExt(filepath)) \in exts

\* the orders a host listing of the set S comes in: ascending or descending
RECURSIVE Reverse(_)
Reverse(s) == IF s = <<>> THEN <<>> ELSE Append(Reverse(Tail(s)), s[1])
RECURSIVE Enumerate(_)
Enumerate(S) ==
    IF S = {} THEN <<>>
    ELSE LET x == CHOOSE x \in S : TRUE IN <<x>> \o Enumerate(S \ {x})
Ascending(S) == Sort(Enumerate(S))
Orders(S) == {Ascending(S), Reverse(Ascending(S))}

\* the result of fs.readdir(dir): an error, or the direct entries
ReaddirResults(fs, d) ==
    {[error |-> TRUE, files |-> <<>>]} \cup
    {[error |-> FALSE, files |-> o] : o \in Orders(Children(fs, d))}

\* the result of fs.find(root, "*"): an error, or everything below root
FindAllResults(fs, d) ==
    {[error |-> TRUE, files |-> <<>>]} \cup
    {[error |-> FALSE, files |-> o] : o \in Orders(Descendants(fs, d))}

\* the eligible entries of a listing, in listing order
RECURSIVE Keep(_, _, _)
Keep(fs, files, exts) ==
    IF files = <<>> THEN <<>>
    ELSE IF ~fs[files[1]].dir /\ isDocumentFile(files[1], exts)
         THEN <<files[1]>> \o Keep(fs, Tail(files), exts)
         ELSE Keep(fs, Tail(files), exts)

RECURSIVE KeepReceipt(_, _, _)
KeepReceipt(fs, files, exts) ==
    IF files = <<>> THEN <<>>
    ELSE IF ~fs[files[1]].dir /\ isReceiptDocumentFile(files[1], exts)
         THEN <<files[1]>> \o KeepReceipt(fs, Tail(files), exts)
         ELSE KeepReceipt(fs, Tail(files), exts)

RECURSIVE KeepVideo(_, _, _)
KeepVideo(fs, files, exts) ==
    IF files = <<>> THEN <<>>
    ELSE IF fsIsFile(fs, files[1]) /\ isVideoFile(files[1], exts)
         THEN <<files[1]>> \o KeepVideo(fs, Tail(files), exts)
         ELSE KeepVideo(fs, Tail(files), exts)

\* getDocumentFiles without files.sort()
getDocumentFilesUnsorted(fs, inp, exts, lr) ==
    IF ~fsExists(fs, inp) THEN [files |-> <<>>, msgs |-> <<"Cannot access">>]
    ELSE IF fsIsDir(fs, inp)
         THEN IF ~lr.error
              THEN [files |-> Keep(fs, lr.files, exts), msgs |-> <<>>]
              ELSE [files |-> <<>>, msgs |-> <<"Failed to list directory">>]
    ELSE IF fsIsFile(fs, inp)
         THEN [files |-> IF isDocumentFile(inp, exts) THEN <<inp>> ELSE <<>>,
               msgs |-> <<>>]
    ELSE [files |-> <<>>, msgs |-> <<>>]

\* getDocumentFiles of text extraction and contract review; lr is the
\* fs.readdir result
getDocumentFiles(fs, inp, exts, lr) ==
    IF ~fsExists(fs, inp) THEN [files |-> <<>>, msgs |-> <<"Cannot access">>]
    ELSE IF fsIsDir(fs, inp)
         THEN IF ~lr.error
              THEN [files |-> Sort(Keep(fs, lr.files, exts)), msgs |-> <<>>]
              ELSE [files |-> Sort(<<>>), msgs |-> <<"Failed to list directory">>]
    ELSE IF fsIsFile(fs, inp)
         THEN [files |-> Sort(IF isDocumentFile(inp, exts) THEN <<inp>> ELSE <<>>),
               msgs |-> <<>>]
    ELSE [files |-> <<>>, msgs |-> <<>>]

\* getDocumentFiles of the receipt processor
getReceiptDocumentFiles(fs, inp, exts, lr) ==
    IF ~fsExists(fs, inp) THEN [files |-> <<>>, msgs |-> <<"Cannot access">>]
    ELSE IF fsIsDir(fs, inp)
         THEN IF ~lr.error
              THEN [files |-> Sort(KeepReceipt(fs, lr.files, exts)), msgs |-> <<>>]
              ELSE [files |-> Sort(<<>>), msgs |-> <<"Failed to list directory">>]
    ELSE IF fsIsFile(fs, inp)
         THEN [files |-> Sort(IF isReceiptDocumentFile(inp, exts) THEN <<inp>> ELSE <<>>),
               msgs |-> <<>>]
    ELSE [files |-> <<>>, msgs |-> <<>>]

\* getVideoFiles; lr is the fs.find(inputPath, "*") result
getVideoFiles(fs, inp, exts, lr) ==
    IF ~fsExists(fs, inp) THEN [files |-> <<>>, msgs |-> <<"Cannot access">>]
    ELSE IF fsIsDir(fs, inp)
         THEN IF ~lr.error
              THEN [files |-> Sort(KeepVideo(fs, lr.files, exts)), msgs |-> <<>>]
              ELSE [files |-> Sort(<<>>), msgs |-> <<>>]
    ELSE IF fsIsFile(fs, inp)
         THEN [files |-> Sort(IF isVideoFile(inp, exts) THEN <<inp>> ELSE <<>>),
               msgs |-> <<>>]
    ELSE [files |-> <<>>, msgs |-> <<>>]

----------------------------------------------------------------------------
(* Output path validation *)

\* validateOutputPath without the isDir check of the batch branch
validateOutputPathAnyKind(fs, out, isBatch, mkdirOk, absOk) ==
    LET pathExists == fsExists(fs, out)
        absPath == IF absOk THEN fsAbs(out) ELSE out
        parentDir == fsDirname(out)
    IN  IF isBatch
        THEN IF pathExists
             THEN [valid |-> TRUE, path |-> absPath, fs |-> fs, error |-> ""]
             ELSE IF ~mkdirOk
                  THEN [valid |-> FALSE, path |-> out, fs |-> fs,
                        error |-> "Cannot create output directory"]
                  ELSE [valid |-> TRUE, path |-> absPath, fs |-> fsMkdir(fs, out),
                        error |-> ""]
        ELSE IF pathExists
             THEN [valid |-> TRUE, path |-> absPath, fs |-> fs, error |-> ""]
             ELSE IF ~fsExists(fs, parentDir)
                  THEN IF ~mkdirOk
                       THEN [valid |-> FALSE, path |-> out, fs |-> fs,
                             error |-> "Cannot create parent directory"]
                       ELSE [valid |-> TRUE, path |-> absPath,
                             fs |-> fsMkdir(fs, parentDir), error |-> ""]
                  ELSE [valid |-> TRUE, path |-> absPath, fs |-> fs, error |-> ""]

\* validateOutputPath that refuses an existing file in single-file mode
validateOutputPathNoOverwrite(fs, out, isBatch, mkdirOk, absOk) ==
    LET pathExists == fsExists(fs, out)
        absPath == IF absOk THEN fsAbs(out) ELSE out
        parentDir == fsDirname(out)
    IN  IF isBatch
        THEN IF pathExists
             THEN IF ~fsIsDir(fs, out)
                  THEN [valid |-> FALSE, path |-> out, fs |-> fs,
                        error |-> "output path must be a directory"]
                  ELSE [valid |-> TRUE, path |-> absPath, fs |-> fs, error |-> ""]
             ELSE IF ~mkdirOk
                  THEN [valid |-> FALSE, path |-> out, fs |-> fs,
                        error |-> "Cannot create output directory"]
                  ELSE [valid |-> TRUE, path |-> absPath, fs |-> fsMkdir(fs, out),
                        error |-> ""]
        ELSE IF pathExists
             THEN IF fsIsDir(fs, out)
                  THEN [valid |-> TRUE, path |-> absPath, fs |-> fs, error |-> ""]
                  ELSE [valid |-> FALSE, path |-> out, fs |-> fs,
                        error |-> "output file exists"]
             ELSE IF ~fsExists(fs, parentDir)
                  THEN IF ~mkdirOk
                       THEN [valid |-> FALSE, path |-> out, fs |-> fs,
                             error |-> "Cannot create parent directory"]
                       ELSE [valid |-> TRUE, path |-> absPath,
                             fs |-> fsMkdir(fs, parentDir), error |-> ""]
                  ELSE [valid |-> TRUE, path |-> absPath, fs |-> fs, error |-> ""]

\* validateOutputPath that does not create the missing parent directory
validateOutputPathNoParent(fs, out, isBatch, mkdirOk, absOk) ==
    LET pathExists == fsExists(fs, out)
        absPath == IF absOk THEN fsAbs(out) ELSE out
        parentDir == fsDirname(out)
    IN  IF isBatch
        THEN IF pathExists
             THEN IF ~fsIsDir(fs, out)
                  THEN [valid |-> FALSE, path |-> out, fs |-> fs,
                        error |-> "output path must be a directory"]
                  ELSE [valid |-> TRUE, path |-> absPath, fs |-> fs, error |-> ""]
             ELSE IF ~mkdirOk
                  THEN [valid |-> FALSE, path |-> out, fs |-> fs,
                        error |-> "Cannot create output directory"]
                  ELSE [valid |-> TRUE, path |-> absPath, fs |-> fsMkdir(fs, out),
                        error |-> ""]
        ELSE IF pathExists
             THEN [valid |-> TRUE, path |-> absPath, fs |-> fs, error |-> ""]
             ELSE IF ~fsExists(fs, parentDir)
                  THEN IF ~mkdirOk
                       THEN [valid |-> FALSE, path |-> out, fs |-> fs,
                             error |-> "Cannot create parent directory"]
                       ELSE [valid |-> TRUE, path |-> absPath, fs |-> fs, error |-> ""]
                  ELSE [valid |-> TRUE, path |-> absPath, fs |-> fs, error |-> ""]

\* validateOutputPath (the four copies are the same code); mkdirOk and absOk
\* are the outcomes of fs.mkdir and fs.abs
validateOutputPath(fs, out, isBatch, mkdirOk, absOk) ==
    LET pathExists == fsExists(fs, out)
        absPath == IF absOk THEN fsAbs(out) ELSE out
        parentDir == fsDirname(out)
    IN  IF isBatch
        THEN IF pathExists
             THEN IF ~fsIsDir(fs, out)
                  THEN [valid |-> FALSE, path |-> out, fs |-> fs,
                        error |-> "output path must be a directory"]
                  ELSE [valid |-> TRUE, path |-> absPath, fs |-> fs, error |-> ""]
             ELSE IF ~mkdirOk
                  THEN [valid |-> FALSE, path |-> out, fs |-> fs,
                        error |-> "Cannot create output directory"]
                  ELSE [valid |-> TRUE, path |-> absPath, fs |-> fsMkdir(fs, out),
                        error |-> ""]
        ELSE IF pathExists
             THEN [valid |-> TRUE, path |-> absPath, fs |-> fs, error |-> ""]
             ELSE IF ~fsExists(fs, parentDir)
                  THEN IF ~mkdirOk
                       THEN [valid |-> FALSE, path |-> out, fs |-> fs,
                             error |-> "Cannot create parent directory"]
                       ELSE [valid |-> TRUE, path |-> absPath,
                             fs |-> fsMkdir(fs, parentDir), error |-> ""]
                  ELSE [valid |-> TRUE, path |-> absPath, fs |-> fs, error |-> ""]

----------------------------------------------------------------------------
(* Tool availability *)

\* what cliCommand(tool, ["-h"]) can return: the error text and whether
\* stdout or stderr holds anything
ProbeResults ==
    [error : {"", "whitelist", "notfound", "whitelist+notfound", "other"},
     out : BOOLEAN]

\* the results taken by a run: every result where the input directory holds
\* nothing, a clean answer or a missing command elsewhere
ProbeResultsFor(fs, inp) ==
    IF fsIsDir(fs, inp) /\ Children(fs, inp) = {}
    THEN ProbeResults
    ELSE {[error |-> "", out |-> TRUE], [error |-> "notfound", out |-> FALSE]}

\* a classification that looks for a missing command before the whitelist
checkCliToolNotFoundFirst(r) ==
    IF r.error \in {"notfound", "whitelist+notfound"}
    THEN [ok |-> FALSE, msg |-> "command not found"]
    ELSE IF r.error = "whitelist"
    THEN [ok |-> FALSE, msg |-> "blocked by security whitelist"]
    ELSE IF r.out \/ r.error = ""
    THEN [ok |-> TRUE, msg |-> ""]
    ELSE [ok |-> FALSE, msg |-> "command failed"]

checkCliTool(r) ==
    IF r.error \in {"whitelist", "whitelist+notfound"}
    THEN [ok |-> FALSE, msg |-> "blocked by security whitelist"]
    ELSE IF r.error = "notfound"
    THEN [ok |-> FALSE, msg |-> "command not found"]
    ELSE IF r.out \/ r.error = ""
    THEN [ok |-> TRUE, msg |-> ""]
    ELSE [ok |-> FALSE, msg |-> "command failed"]

\* the media script looks for "ffmpeg version" in what `ffmpeg` prints
ffmpegAvailable(hasVersion) == hasVersion

----------------------------------------------------------------------------
(* Per-file output path *)

\* outputPath + ext, for a path whose last component has no extension
PlusExt(out, e) == [out EXCEPT ![Len(out)] = N(Last(out).base, e)]

\* determineTextOutputPath without the fs.isDir(outputPath) test
determineTextOutputPathNoDir(fs, inputFile, baseName, out, isBatch) ==
    IF out # NoPath
    THEN IF isBatch
         THEN fsJoin(out, N(baseName, ".txt"))
         ELSE IF fsExt(out) # "" THEN out ELSE PlusExt(out, ".txt")
    ELSE fsJoin(fsDirname(inputFile), N(baseName, ".txt"))

determineTextOutputPath(fs, inputFile, baseName, out, isBatch) ==
    IF out # NoPath
    THEN IF isBatch \/ fsIsDir(fs, out)
         THEN fsJoin(out, N(baseName, ".txt"))
         ELSE IF fsExt(out) # "" THEN out ELSE PlusExt(out, ".txt")
    ELSE fsJoin(fsDirname(inputFile), N(baseName, ".txt"))

determineReceiptOutputPath(fs, inputFile, baseName, out, isBatch) ==
    IF out # NoPath
    THEN IF isBatch \/ fsIsDir(fs, out)
         THEN fsJoin(out, N(baseName \o ".receipt", ".json"))
         ELSE IF fsExt(out) # "" THEN out ELSE PlusExt(out, ".json")
    ELSE fsJoin(fsDirname(inputFile), N(baseName \o ".receipt", ".json"))

determineReviewOutputPath(fs, inputFile, baseName, out, isBatch) ==
    IF out # NoPath
    THEN IF isBatch \/ fsIsDir(fs, out)
         THEN fsJoin(out, N(baseName \o ".review", ".txt"))
         ELSE IF fsExt(out) # "" THEN out ELSE PlusExt(out, ".txt")
    ELSE fsJoin(fsDirname(inputFile), N(baseName \o ".review", ".txt"))

\* media; audioExt is audioConfigs[outputFormat].ext
determineOutputPath(fs, inputFile, baseName, audioExt, out, isBatch) ==
    IF out # NoPath
    THEN IF isBatch \/ fsIsDir(fs, out)
         THEN fsJoin(out, N(baseName, audioExt))
         ELSE IF fsExt(out) # "" THEN out ELSE PlusExt(out, audioExt)
    ELSE fsJoin(fsDirname(inputFile), N(baseName, audioExt))

\* the per-file output of the running pipeline
OutputFileOf(p, fs, f, out, isBatch) ==
    CASE p = "text" -> determineTextOutputPath(fs, f, fsBasename(f), out, isBatch)
      [] p = "receipt" -> determineReceiptOutputPath(fs, f, fsBasename(f), out, isBatch)
      [] p = "review" -> determineReviewOutputPath(fs, f, fsBasename(f), out, isBatch)
      [] OTHER -> determineOutputPath(fs, f, fsBasename(f), ".mp3", out, isBatch)

----------------------------------------------------------------------------
(* External tools *)

\* a cliCommand that returns while the tool still runs
cliCommandAsync(tool, kind, f) ==
    <<[ev |-> "begin", tool |-> tool, kind |-> kind, file |-> f]>>

\* a cliCommand that runs the tool a second time
cliCommandRetried(tool, kind, f) ==
    <<[ev |-> "begin", tool |-> tool, kind |-> kind, file |-> f],
      [ev |-> "end", tool |-> tool, kind |-> kind, file |-> f],
      [ev |-> "begin", tool |-> tool, kind |-> kind, file |-> f],
      [ev |-> "end", tool |-> tool, kind |-> kind, file |-> f]>>

\* one synchronous cliCommand: it returns when the tool has ended
cliCommand(tool, kind, f) ==
    <<[ev |-> "begin", tool |-> tool, kind |-> kind, file |-> f],
      [ev |-> "end", tool |-> tool, kind |-> kind, file |-> f]>>

TextTxt == N("text", ".txt")
\* the directory doc-to-text names after the document when it ignores -o
ToolHash(doc) == N(fsBasename(doc) \o "_md5", "")

\* what a doc-to-text run that ended without error leaves behind: the text
\* at the -o path, a text.txt beside it, a text.txt under the working
\* directory, or nothing
docToTextEffect(fs, doc, target, o) ==
    CASE o.ext = "wrote" ->
            fsWrite(fs, target, TextNode(o.text, fsBasename(doc)))
      [] o.ext = "hashdir" ->
            fsWrite(fs, fsJoin(fsDirname(target), TextTxt), TextNode(o.text, fsBasename(doc)))
      [] o.ext = "cwd" ->
            fsWrite(fs, fsJoin(fsJoin(Cwd, ToolHash(doc)), TextTxt),
                    TextNode(o.text, fsBasename(doc)))
      [] OTHER -> fs

\* a fallback that does not look whether the expected file is there
fallbackAlways(fs, expected) == TRUE

\* if (!fs.exists(textOutputFile)): the expected file was not created
fallbackNeeded(fs, expected) == ~fsExists(fs, expected)

\* a check of the text that lets everything pass
isBlankNever(fs, file) == FALSE

\* !content || content.trim().length === 0
isBlank(fs, file) == fs[fsAbs(file)].k # "text"

\* fs.find(root, "text.txt").files
FindTextTxt(fs, root) == {q \in Descendants(fs, root) : Last(q) = TextTxt /\ ~fs[q].dir}

\* element [0] of a host listing, which comes in ascending or descending order
First(S, rev) ==
    IF rev THEN CHOOSE x \in S : \A y \in S \ {x} : ~PathLess(x, y)
    ELSE CHOOSE x \in S : \A y \in S \ {x} : ~PathLess(y, x)

Null == [ok |-> FALSE, rec |-> NoRec]
JsonNode(r) == FileNode("json", r)

----------------------------------------------------------------------------
(* Text extraction: extractTextFromDocument *)

\* what the extraction stage of one file did: the file expected at the -o
\* path, whether it was there before (cached), whether doc-to-text ran and
\* returned an error, whether the expected file was there when doc-to-text
\* had returned, whether the fallback search ran and what it found, the file
\* the text was read from and its kind, whether the stage succeeded and
\* whether llm-caller ran after it
Stage(file, expected, cached, invoked, toolError, present, searched, found, used, text, ok, llm, fingerprint) ==
    <<[file |-> file, expected |-> expected, cached |-> cached, invoked |-> invoked,
       toolError |-> toolError, present |-> present, searched |-> searched,
       found |-> found,
       used |-> used, text |-> text, ok |-> ok, llm |-> llm,
       fingerprint |-> fingerprint]>>
NoFingerprint == N("", "")

extractTextFromDocument(fs, documentFile, textOutputFile, o) ==
    LET c == cliCommand("doc-to-text", "work", documentFile)
        fs1 == IF o.ext = "error" THEN fs
               ELSE docToTextEffect(fs, documentFile, textOutputFile, o)
        missing == fallbackNeeded(fs1, textOutputFile)
        found == FindTextTxt(fs1, Cwd)
        sourceFile == First(found, o.rev)
        locateFailed == missing /\ (o.io = "cwderr" \/ found = {}
                                    \/ o.io = "readerr" \/ o.io = "writeerr")
        fs2 == IF missing /\ ~locateFailed
               THEN fsRm(fsWrite(fs1, textOutputFile, fs1[sourceFile]), sourceFile)
               ELSE fs1
        searched == o.ext # "error" /\ missing /\ o.io # "cwderr"
        st(used, text, ok) ==
            Stage(documentFile, textOutputFile, FALSE, TRUE, o.ext = "error",
                  fsExists(fs1, textOutputFile), searched,
                  IF searched /\ found # {} THEN sourceFile ELSE NoPath,
                  used, text, ok, FALSE, NoFingerprint)
    IN  IF o.ext = "error"
        THEN [ok |-> FALSE, fs |-> fs, calls |-> c, stage |-> st(NoPath, "none", FALSE)]
        ELSE IF locateFailed
        THEN [ok |-> FALSE, fs |-> fs1, calls |-> c, stage |-> st(NoPath, "none", FALSE)]
        ELSE IF o.io = "readerr"
        THEN [ok |-> FALSE, fs |-> fs2, calls |-> c, stage |-> st(NoPath, "none", FALSE)]
        ELSE IF isBlank(fs2, textOutputFile)
        THEN [ok |-> FALSE, fs |-> fs2, calls |-> c,
              stage |-> st(textOutputFile, fs2[fsAbs(textOutputFile)].k, FALSE)]
        ELSE [ok |-> TRUE, fs |-> fs2, calls |-> c,
              stage |-> st(textOutputFile, fs2[fsAbs(textOutputFile)].k, TRUE)]

----------------------------------------------------------------------------
(* Receipt processor: processReceipt and its helpers *)

\* a reader that takes whatever is at the path for a record
readExistingReceiptDataAnything(fs, filePath, readOk) == [ok |-> TRUE, rec |-> NoRec]

readExistingReceiptData(fs, filePath, readOk) ==
    IF ~readOk \/ ~fsIsFile(fs, filePath) THEN Null
    ELSE IF fs[fsAbs(filePath)].k = "json"
         THEN [ok |-> TRUE, rec |-> fs[fsAbs(filePath)].rec]
         ELSE Null

\* fs.md5 of the document, or basename + time with the separators removed
calculateMd5(fs, str, md5Ok, t) ==
    IF fsExists(fs, str) /\ md5Ok THEN N(fsBasename(str) \o "_md5", "")
    ELSE N(fsBasename(str) \o ToString(t), "")

\* the type codes of the model, as strings of characters
Invoice == <<"i", "n", "v", "o", "i", "c", "e">>
General == <<"g", "e", "n", "e", "r", "a", "l">>

\* what llm-caller prints, cut into pieces: a fence of three backticks, the
\* word json, white space, prose, and four JSON texts (an object with the
\* type code "invoice", an object without type code, an array, null)
Fence == "fence"
Tag == "json"
Ws == " "
Prose == "prose"
ObjInv == "{inv}"
ObjPlain == "{}"
Arr == "[1]"
NullTxt == "null"
JsonTexts == {ObjInv, ObjPlain, Arr, NullTxt}

\* llmOutput.match(fence, optional json, white space, lazy group, white
\* space, fence): the first fence that has a fence after it opens the block, the next fence closes it, and the
\* group is what lies between without the word json behind the opening fence
\* and without the white space at its ends; <<>> when there is no match
FencesOf(llmOutput) == {i \in DOMAIN llmOutput : llmOutput[i] = Fence}
Least(S) == CHOOSE i \in S : \A j \in S : i <= j
Greatest(S) == CHOOSE i \in S : \A j \in S : j <= i
jsonMatch(llmOutput) ==
    IF Cardinality(FencesOf(llmOutput)) < 2 THEN [found |-> FALSE, group |-> <<>>]
    ELSE LET open == Least(FencesOf(llmOutput))
             from == IF llmOutput[open + 1] = Tag THEN open + 2 ELSE open + 1
             close == Least({i \in FencesOf(llmOutput) : i >= from})
             inner == {i \in from..(close - 1) : llmOutput[i] # Ws}
         IN  [found |-> TRUE,
              group |-> IF inner = {} THEN <<>>
                        ELSE SubSeq(llmOutput, Least(inner), Greatest(inner))]

\* JSON.parse: white space around the one JSON text is allowed, anything
\* else is a SyntaxError
NoValue == [kind |-> "error", type_code |-> <<>>]
JSONparse(jsonStr) ==
    LET solid == {i \in DOMAIN jsonStr : jsonStr[i] # Ws}
        text == jsonStr[Least(solid)]
    IN  IF Cardinality(solid) # 1 \/ text \notin JsonTexts THEN NoValue
        ELSE CASE text = ObjInv -> [kind |-> "object", type_code |-> Invoice]
               [] text = ObjPlain -> [kind |-> "object", type_code |-> <<>>]
               [] text = Arr -> [kind |-> "array", type_code |-> <<>>]
               [] OTHER -> [kind |-> "null", type_code |-> <<>>]

\* the two assignments throw on null, which the catch turns into null; on an
\* array they set properties that JSON.stringify does not write
parseExtractedData(llmOutput, sourceFileName, t) ==
    LET m == jsonMatch(llmOutput)
        jsonStr == IF m.found THEN m.group ELSE llmOutput
        data == JSONparse(jsonStr)
    IN  CASE data.kind = "object" ->
                [ok |-> TRUE,
                 rec |-> [kind |-> "object", source_file |-> sourceFileName,
                          type_code |-> data.type_code, stamp |-> t]]
          [] data.kind = "array" ->
                [ok |-> TRUE, rec |-> [NoRec EXCEPT !.kind = "array"]]
          [] OTHER -> Null

\* llmResult.stdout of the answers of the model
Stdout(llm) ==
    CASE llm = "garbage" -> <<Prose>>
      [] llm = "invoice" -> <<Prose, Fence, Tag, Ws, ObjInv, Ws, Fence>>
      [] llm = "list" -> <<Fence, Arr, Fence>>
      [] OTHER -> <<ObjPlain>>

\* a cache check that never finds the extracted text
cachedTextNever(fs, tempTextFile) == FALSE

\* if (fs.exists(tempTextFile)) skipTextExtraction = true
cachedText(fs, tempTextFile) == fsExists(fs, tempTextFile)

\* steps 2 to 5 of processReceipt, the text being in tempTextFile unless the
\* extraction failed: read it, reuse an existing output, call llm-caller,
\* parse its output and save the record; staged is the stage as far as
\* step 1 determines it
processReceiptFromText(fs2, documentFile, outputFile, o, t, c1, tempTextFile, extractFailed, staged) ==
    LET baseName == fsBasename(documentFile)
        textFailed == o.io = "readerr" \/ isBlank(fs2, tempTextFile)
        existingData == readExistingReceiptData(fs2, outputFile, TRUE)
        c3 == c1 \o cliCommand("llm-caller", "work", documentFile)
        extractedData == parseExtractedData(Stdout(o.llm), baseName, t)
        st(used, text, ok, llm) ==
            <<[staged[1] EXCEPT !.used = used, !.text = text, !.ok = ok, !.llm = llm]>>
        read == st(tempTextFile, fs2[fsAbs(tempTextFile)].k, TRUE, FALSE)
        asked == st(tempTextFile, fs2[fsAbs(tempTextFile)].k, TRUE, TRUE)
    IN  IF extractFailed
        THEN [ok |-> FALSE, rec |-> NoRec, fs |-> fs2, calls |-> c1,
              stage |-> st(NoPath, "none", FALSE, FALSE)]
        ELSE IF o.io = "readerr"
        THEN [ok |-> FALSE, rec |-> NoRec, fs |-> fs2, calls |-> c1,
              stage |-> st(NoPath, "none", FALSE, FALSE)]
        ELSE IF textFailed
        THEN [ok |-> FALSE, rec |-> NoRec, fs |-> fs2, calls |-> c1,
              stage |-> st(tempTextFile, fs2[fsAbs(tempTextFile)].k, FALSE, FALSE)]
        ELSE IF fsExists(fs2, outputFile) /\ existingData.ok
        THEN [ok |-> TRUE, rec |-> existingData.rec, fs |-> fs2, calls |-> c1,
              stage |-> read]
        ELSE IF o.llm \in {"error", "empty"}
        THEN [ok |-> FALSE, rec |-> NoRec, fs |-> fs2, calls |-> c3, stage |-> asked]
        ELSE IF ~extractedData.ok
        THEN [ok |-> FALSE, rec |-> NoRec, fs |-> fs2, calls |-> c3, stage |-> asked]
        ELSE IF o.io = "writeerr"
        THEN [ok |-> FALSE, rec |-> NoRec, fs |-> fs2, calls |-> c3, stage |-> asked]
        ELSE [ok |-> TRUE, rec |-> extractedData.rec,
              fs |-> fsWrite(fs2, outputFile, JsonNode(extractedData.rec)),
              calls |-> c3, stage |-> asked]

\* the end of step 1 of processReceipt, doc-to-text having run on fs2 unless
\* the text was cached: the fallback search for the text file
processReceiptLocate(fs2, documentFile, outputFile, o, t, c1, skipTextExtraction, md5Hash, tempDir, hashDir, tempTextFile0) ==
    LET missing == ~skipTextExtraction /\ fallbackNeeded(fs2, tempTextFile0)
        inHash == IF missing /\ hashDir # tempDir /\ fsExists(fs2, hashDir)
                  THEN {q \in Children(fs2, hashDir) : q[Len(q)].ext = ".txt" /\ ~fs2[q].dir}
                  ELSE {}
        tempTextFile1 == IF inHash # {} THEN First(inHash, o.rev) ELSE tempTextFile0
        needCwd == missing /\ ~fsExists(fs2, tempTextFile1)
        inCwd == FindTextTxt(fs2, Cwd)
        tempTextFile == IF needCwd /\ inCwd # {} THEN First(inCwd, o.rev) ELSE tempTextFile1
        extractFailed ==
            ~skipTextExtraction /\
            (o.ext = "error" \/ (missing /\ (o.io = "cwderr" \/ (needCwd /\ inCwd = {}))))
        searched == ~skipTextExtraction /\ o.ext # "error" /\ missing /\ o.io # "cwderr"
        staged ==
            Stage(documentFile, tempTextFile0, skipTextExtraction, ~skipTextExtraction,
                  ~skipTextExtraction /\ o.ext = "error",
                  fsExists(fs2, tempTextFile0), searched,
                  IF searched /\ tempTextFile # tempTextFile0 THEN tempTextFile ELSE NoPath,
                  NoPath, "none", FALSE, FALSE, md5Hash)
    IN  processReceiptFromText(fs2, documentFile, outputFile, o, t, c1, tempTextFile,
                               extractFailed, staged)

\* step 1 of processReceipt in the hash directory made on fs1: the cache
\* check and doc-to-text
processReceiptExtract(fs1, documentFile, outputFile, o, t, md5Hash, tempDir, hashDir, tempTextFile0) ==
    LET skipTextExtraction == cachedText(fs1, tempTextFile0)
        c1 == IF skipTextExtraction THEN <<>>
              ELSE cliCommand("doc-to-text", "work", documentFile)
        fs2 == IF skipTextExtraction \/ o.ext = "error" THEN fs1
               ELSE docToTextEffect(fs1, documentFile, tempTextFile0, o)
    IN  processReceiptLocate(fs2, documentFile, outputFile, o, t, c1, skipTextExtraction,
                             md5Hash, tempDir, hashDir, tempTextFile0)

processReceipt(fs, documentFile, outputFile, o, t) ==
    LET baseName == fsBasename(documentFile)
        md5Hash == calculateMd5(fs, documentFile, o.md5, t)
        tempDir == fsDirname(outputFile)
        hashDir0 == fsJoin(tempDir, md5Hash)
        mkFail == ~fsExists(fs, hashDir0) /\ ~o.mkdir
        fs1 == IF ~fsExists(fs, hashDir0) /\ o.mkdir THEN fsMkdir(fs, hashDir0) ELSE fs
        hashDir == IF mkFail THEN tempDir ELSE hashDir0
        tempTextFile0 == fsJoin(hashDir, N(baseName \o ".extracted", ".txt"))
    IN  processReceiptExtract(fs1, documentFile, outputFile, o, t, md5Hash, tempDir,
                              hashDir, tempTextFile0)

----------------------------------------------------------------------------
(* Contract review: processDocument *)

processDocument(fs, documentFile, reviewOutputFile, o) ==
    LET baseName == fsBasename(documentFile)
        tempDir == fsDirname(reviewOutputFile)
        tempTextFile0 == fsJoin(tempDir, N(baseName \o ".extracted", ".txt"))
        c1 == cliCommand("doc-to-text", "work", documentFile)
        fs1 == IF o.ext = "error" THEN fs
               ELSE docToTextEffect(fs, documentFile, tempTextFile0, o)
        missing == fallbackNeeded(fs1, tempTextFile0)
        inCwd == FindTextTxt(fs1, Cwd)
        tempTextFile == IF missing /\ inCwd # {} THEN First(inCwd, o.rev) ELSE tempTextFile0
        extractFailed == o.ext = "error" \/ (missing /\ (o.io = "cwderr" \/ inCwd = {}))
        textFailed == o.io = "readerr" \/ isBlank(fs1, tempTextFile)
        c3 == c1 \o cliCommand("llm-caller", "work", documentFile)
        searched == o.ext # "error" /\ missing /\ o.io # "cwderr"
        st(used, text, ok, llm) ==
            Stage(documentFile, tempTextFile0, FALSE, TRUE, o.ext = "error",
                  fsExists(fs1, tempTextFile0), searched,
                  IF searched /\ inCwd # {} THEN tempTextFile ELSE NoPath,
                  used, text, ok, llm, NoFingerprint)
        asked == st(tempTextFile, fs1[fsAbs(tempTextFile)].k, TRUE, TRUE)
    IN  IF extractFailed
        THEN [ok |-> FALSE, fs |-> fs1, calls |-> c1,
              stage |-> st(NoPath, "none", FALSE, FALSE)]
        ELSE IF o.io = "readerr"
        THEN [ok |-> FALSE, fs |-> fs1, calls |-> c1,
              stage |-> st(NoPath, "none", FALSE, FALSE)]
        ELSE IF textFailed
        THEN [ok |-> FALSE, fs |-> fs1, calls |-> c1,
              stage |-> st(tempTextFile, fs1[fsAbs(tempTextFile)].k, FALSE, FALSE)]
        ELSE IF o.llm \in {"error", "empty"}
        THEN [ok |-> FALSE, fs |-> fs1, calls |-> c3, stage |-> asked]
        ELSE IF o.io = "writeerr"
        THEN [ok |-> FALSE, fs |-> fs1, calls |-> c3, stage |-> asked]
        ELSE [ok |-> TRUE,
              fs |-> fsWrite(fs1, reviewOutputFile, TextNode("review", baseName)),
              calls |-> c3, stage |-> asked]

----------------------------------------------------------------------------
(* Media: convertVideoToAudio *)

\* the events of an ffmpeg invocation with what it was invoked with: the
\* output path (the last argument), whether "-y" was among the arguments,
\* and whether the output path existed when the tool was started
Invoked(events, outputFile, yes, there) ==
    [k \in DOMAIN events |->
        [ev |-> events[k].ev, tool |-> events[k].tool, kind |-> events[k].kind,
         file |-> events[k].file, out |-> outputFile, yes |-> yes, there |-> there]]

\* a conversion that never passes "-y"
convertVideoToAudioWithoutYes(fs, inputFile, outputFile, ow, o) ==
    LET c == Invoked(cliCommand("ffmpeg", "work", inputFile), outputFile, FALSE,
                     fsExists(fs, outputFile))
        fs1 == IF o.ext = "wrote"
               THEN fsWrite(fs, outputFile, TextNode("audio", fsBasename(inputFile)))
               ELSE fs
    IN  IF o.ext = "error" THEN [ok |-> FALSE, fs |-> fs, calls |-> c, stage |-> <<>>]
        ELSE IF ~fsExists(fs1, outputFile)
        THEN [ok |-> FALSE, fs |-> fs1, calls |-> c, stage |-> <<>>]
        ELSE [ok |-> TRUE, fs |-> fs1, calls |-> c, stage |-> <<>>]

\* if (overwrite) args.push("-y"); args.push(outputFile)
convertVideoToAudio(fs, inputFile, outputFile, ow, o) ==
    LET c == Invoked(cliCommand("ffmpeg", "work", inputFile), outputFile, ow,
                     fsExists(fs, outputFile))
        fs1 == IF o.ext = "wrote"
               THEN fsWrite(fs, outputFile, TextNode("audio", fsBasename(inputFile)))
               ELSE fs
    IN  IF o.ext = "error" THEN [ok |-> FALSE, fs |-> fs, calls |-> c, stage |-> <<>>]
        ELSE IF ~fsExists(fs1, outputFile)
        THEN [ok |-> FALSE, fs |-> fs1, calls |-> c, stage |-> <<>>]
        ELSE [ok |-> TRUE, fs |-> fs1, calls |-> c, stage |-> <<>>]

----------------------------------------------------------------------------
(* Receipt summary: createSummaryFile and its helpers *)

\* a classifier that files a record without type code under "ungrouped"
determineReceiptTypeOrUngrouped(receipt) ==
    IF receipt.type_code # <<>> THEN receipt.type_code
    ELSE IF "fields" \in DOMAIN receipt /\ receipt.fields.type_code # <<>>
    THEN receipt.fields.type_code
    ELSE <<"u", "n", "g", "r", "o", "u", "p", "e", "d">>

\* the type code of the record, else the one of its "fields" object, else
\* none (<<>>)
determineReceiptType(receipt) ==
    IF receipt.type_code # <<>> THEN receipt.type_code
    ELSE IF "fields" \in DOMAIN receipt THEN receipt.fields.type_code
    ELSE <<>>

\* the keys of receiptsByType, in insertion order
RECURSIVE TypeOrder(_, _)
TypeOrder(receipts, seen) ==
    IF receipts = <<>> THEN <<>>
    ELSE LET ty == determineReceiptType(receipts[1])
         IN  IF ty = <<>> \/ ty \in seen THEN TypeOrder(Tail(receipts), seen)
             ELSE <<ty>> \o TypeOrder(Tail(receipts), seen \cup {ty})

RECURSIVE OfType(_, _)
OfType(receipts, ty) ==
    IF receipts = <<>> THEN <<>>
    ELSE IF determineReceiptType(receipts[1]) = ty
         THEN <<receipts[1]>> \o OfType(Tail(receipts), ty)
         ELSE OfType(Tail(receipts), ty)

\* a grouping that keeps the type of the first record only
groupReceiptsByTypeFirstOnly(receipts) ==
    [keys |-> IF TypeOrder(receipts, {}) = <<>> THEN <<>>
              ELSE <<TypeOrder(receipts, {})[1]>>,
     of |-> [ty \in Range(TypeOrder(receipts, {})) |-> OfType(receipts, ty)]]

\* receiptsByType as the list of its keys and the list under each key
groupReceiptsByType(receipts) ==
    [keys |-> TypeOrder(receipts, {}),
     of |-> [ty \in Range(TypeOrder(receipts, {})) |-> OfType(receipts, ty)]]

\* String.prototype.toLowerCase, character by character
UpperCase ==
    <<"A", "B", "C", "D", "E", "F", "G", "H", "I", "J", "K", "L", "M",
      "N", "O", "P", "Q", "R", "S", "T", "U", "V", "W", "X", "Y", "Z">>
LowerCase ==
    <<"a", "b", "c", "d", "e", "f", "g", "h", "i", "j", "k", "l", "m",
      "n", "o", "p", "q", "r", "s", "t", "u", "v", "w", "x", "y", "z">>
Digits == <<"0", "1", "2", "3", "4", "5", "6", "7", "8", "9">>
lower(c) ==
    IF \E i \in DOMAIN UpperCase : UpperCase[i] = c
    THEN LowerCase[CHOOSE i \in DOMAIN UpperCase : UpperCase[i] = c]
    ELSE c

\* .replace(/[^a-z0-9_\-]/g, "_")
Kept == Range(LowerCase) \cup Range(Digits) \cup {"_", "-"}
replaceInvalid(name) == [i \in DOMAIN name |-> IF name[i] \in Kept THEN name[i] ELSE "_"]

\* .replace(/_+/g, "_")
RECURSIVE collapse(_)
collapse(name) ==
    IF Len(name) < 2 THEN name
    ELSE IF name[1] = "_" /\ name[2] = "_" THEN collapse(Tail(name))
    ELSE <<name[1]>> \o collapse(Tail(name))

\* .replace(/^_|_$/g, "")
trimUnderscore(name) ==
    LET a == IF name # <<>> /\ name[1] = "_" THEN Tail(name) ELSE name
    IN  IF a # <<>> /\ a[Len(a)] = "_" THEN Front(a) ELSE a

\* a sanitizer that turns hyphens into underscores too
sanitizeFileNameNoHyphen(name) ==
    trimUnderscore(collapse(
        [i \in DOMAIN name |->
            IF lower(name[i]) \in Kept \ {"-"} THEN lower(name[i]) ELSE "_"]))

sanitizeFileName(name) ==
    LET given == IF name = <<>> THEN <<"u", "n", "k", "n", "o", "w", "n">> ELSE name
    IN  trimUnderscore(collapse(replaceInvalid([i \in DOMAIN given |-> lower(given[i])])))

\* the characters written one after the other
RECURSIVE Text(_)
Text(chars) == IF chars = <<>> THEN "" ELSE chars[1] \o Text(Tail(chars))

\* a skip policy that passes over every group file when overwrite is off
skipAllGroupFiles(ow, fs, typeFilePath) == ~ow

\* if (!overwrite && fs.exists(typeFilePath)) continue
skipGroupFile(ow, fs, typeFilePath) == ~ow /\ fsExists(fs, typeFilePath)

\* the loop over receiptsByType: st is [fs, results]; a group file is kept as
\* the list of records it was written from (JSON.stringify of the list, or
\* createTotalCsv of it, whose text is modelled further down)
RECURSIVE WriteGroups(_, _, _, _, _, _, _)
WriteGroups(st, keys, groups, totalDirPath, outputFormat, ow, writeOk) ==
    IF keys = <<>> THEN st
    ELSE LET receiptType == keys[1]
             typeFilePath ==
                 fsJoin(totalDirPath,
                        N("receipts_" \o Text(sanitizeFileName(receiptType)),
                          IF outputFormat = "csv" THEN ".csv" ELSE ".json"))
             same == WriteGroups(st, Tail(keys), groups, totalDirPath, outputFormat, ow, writeOk)
             written ==
                 [fs |-> fsWrite(st.fs, typeFilePath,
                                 ListNode(IF outputFormat = "csv" THEN "csv" ELSE "json",
                                          groups[receiptType])),
                  results |-> Append(st.results, typeFilePath)]
         IN  IF receiptType = General \/ groups[receiptType] = <<>> THEN same
             ELSE IF skipGroupFile(ow, st.fs, typeFilePath) THEN same
             ELSE IF ~writeOk THEN same
             ELSE WriteGroups(written, Tail(keys), groups, totalDirPath, outputFormat,
                              ow, writeOk)

\* results is <<>> where the code returns null
createSummaryFile(fs, receipts, out, outputFormat, ow, mkdirOk, writeOk) ==
    LET total == fsJoin(out, N("total", ""))
        mk == ~fsExists(fs, total)
        fs1 == IF mk /\ mkdirOk THEN fsMkdir(fs, total) ELSE fs
        totalDirPath == IF mk /\ ~mkdirOk THEN out ELSE total
        receiptsByType == groupReceiptsByType(receipts)
    IN  WriteGroups([fs |-> fs1, results |-> <<>>], receiptsByType.keys,
                    receiptsByType.of, totalDirPath, outputFormat, ow, writeOk)

----------------------------------------------------------------------------
(* The flattened table: flattenObject and createTotalCsv.  A JSON value is *)
(* [t, s, items]: its type, the characters of a string or number, and the *)
(* elements of an array or the entries [k, v] of an object in key order.   *)

StrV(chars) == [t |-> "string", s |-> chars, items |-> <<>>]
NumV(chars) == [t |-> "number", s |-> chars, items |-> <<>>]
NullV == [t |-> "null", s |-> <<>>, items |-> <<>>]
ArrV(items) == [t |-> "array", s |-> <<>>, items |-> items]
ObjV(entries) == [t |-> "object", s |-> <<>>, items |-> entries]
Entry(k, v) == [k |-> k, v |-> v]

KeyFields == <<"f", "i", "e", "l", "d", "s">>
KeyTypeCode == <<"t", "y", "p", "e", "-", "c", "o", "d", "e">>

\* result[k] = v: a key that is there keeps its place
Assign(result, k, v) ==
    IF \E i \in DOMAIN result : result[i].k = k
    THEN [i \in DOMAIN result |-> IF result[i].k = k THEN Entry(k, v) ELSE result[i]]
    ELSE Append(result, Entry(k, v))
RECURSIVE AssignAll(_, _)
AssignAll(result, entries) ==
    IF entries = <<>> THEN result
    ELSE AssignAll(Assign(result, entries[1].k, entries[1].v), Tail(entries))

\* String(value) and Array.prototype.join: null gives the empty string, an
\* array inside an array is joined with commas, an object gives
\* [object Object]
RECURSIVE ToStr(_)
RECURSIVE join(_, _)
ToStr(value) ==
    CASE value.t \in {"string", "number"} -> value.s
      [] value.t = "null" -> <<>>
      [] value.t = "array" -> join(value.items, <<",">>)
      [] OTHER -> <<"[", "o", "b", "j", "e", "c", "t", " ",
                    "O", "b", "j", "e", "c", "t", "]">>
join(items, sep) ==
    IF items = <<>> THEN <<>>
    ELSE IF Len(items) = 1 THEN ToStr(items[1])
    ELSE ToStr(items[1]) \o sep \o join(Tail(items), sep)

\* the entries of value without the one under "type-code"
RECURSIVE WithoutTypeCode(_)
WithoutTypeCode(entries) ==
    IF entries = <<>> THEN <<>>
    ELSE (IF entries[1].k = KeyTypeCode THEN <<>> ELSE <<entries[1]>>)
         \o WithoutTypeCode(Tail(entries))

\* the loop of flattenObject over the keys of obj, result being what is
\* assigned so far; prefix is <<>> for the empty string
RECURSIVE flattenInto(_, _, _)
flattenInto(result, entries, prefix) ==
    IF entries = <<>> THEN result
    ELSE LET key == entries[1].k
             value == entries[1].v
             newKey == IF prefix # <<>> THEN prefix \o <<".">> \o key ELSE key
             next ==
                 IF newKey = KeyTypeCode THEN result
                 ELSE IF key = KeyFields /\ value.t = "object"
                 THEN AssignAll(result, WithoutTypeCode(value.items))
                 ELSE IF value.t = "object"
                 THEN AssignAll(result, flattenInto(<<>>, value.items, newKey))
                 ELSE IF value.t = "array"
                 THEN Assign(result, newKey, StrV(join(value.items, <<";", " ">>)))
                 ELSE Assign(result, newKey, value)
         IN  flattenInto(next, Tail(entries), prefix)

flattenObject(obj, prefix) == ObjV(flattenInto(<<>>, obj.items, prefix))

\* the value under a key, undefined (taken as null) when there is none
Get(obj, k) ==
    IF \E i \in DOMAIN obj.items : obj.items[i].k = k
    THEN obj.items[CHOOSE i \in DOMAIN obj.items : obj.items[i].k = k].v
    ELSE NullV

\* allFields: the keys of the flattened receipts in the order they were added
RECURSIVE allFields(_, _)
allFields(receipts, fields) ==
    IF receipts = <<>> THEN fields
    ELSE LET keys == [i \in DOMAIN flattenObject(receipts[1], <<>>).items |->
                         flattenObject(receipts[1], <<>>).items[i].k]
             new == SelectSeq(keys, LAMBDA k : k # KeyTypeCode)
             RECURSIVE add(_, _)
             add(fs, ks) ==
                 IF ks = <<>> THEN fs
                 ELSE add(IF \E i \in DOMAIN fs : fs[i] = ks[1] THEN fs
                          ELSE Append(fs, ks[1]), Tail(ks))
         IN  allFields(Tail(receipts), add(fields, new))

\* value.replace(/"/g, "\"\"")
RECURSIVE doubleQuotes(_)
doubleQuotes(chars) ==
    IF chars = <<>> THEN <<>>
    ELSE (IF chars[1] = "\"" THEN <<"\"", "\"">> ELSE <<chars[1]>>)
         \o doubleQuotes(Tail(chars))

\* the escaping of one cell: only a string that holds a comma, a quote or a
\* newline is quoted, every other value is written as join writes it
csvCell(value) ==
    IF value.t = "string" /\ \E i \in DOMAIN value.s : value.s[i] \in {",", "\"", "\n"}
    THEN <<"\"">> \o doubleQuotes(value.s) \o <<"\"">>
    ELSE ToStr(value)

\* Array.prototype.join of strings
RECURSIVE joinText(_, _)
joinText(texts, sep) ==
    IF texts = <<>> THEN <<>>
    ELSE IF Len(texts) = 1 THEN texts[1]
    ELSE texts[1] \o sep \o joinText(Tail(texts), sep)

createTotalCsv(receipts) ==
    IF receipts = <<>> THEN <<>>
    ELSE LET fields == allFields(receipts, <<>>)
             headerRow == joinText(fields, <<",">>)
             dataRows ==
                 [r \in DOMAIN receipts |->
                     joinText([f \in DOMAIN fields |->
                                  csvCell(Get(flattenObject(receipts[r], <<>>), fields[f]))],
                              <<",">>)]
         IN  headerRow \o <<"\n">> \o joinText(dataRows, <<"\n">>)

----------------------------------------------------------------------------
(* The runs of the model: the pipeline, its variables and the file system  *)
(* it starts on.                                                           *)

Pipelines == {"text", "receipt", "review", "media"}

InDir == <<RootC, N("in", "")>>
Gone == <<RootC, N("gone", "")>>
OutAbs == <<RootC, N("out", "")>>
OutRel == <<N("out", "")>>
\* a relative output path in a directory that does not exist
OutDeep == <<N("new", ""), N("out", ".txt")>>
SubC == N("sub", "")

SrcExt(p) == IF p = "media" THEN ".mp4" ELSE ".pdf"
SrcExtUpper(p) == IF p = "media" THEN ".MP4" ELSE ".PDF"
AllowList(p) == IF p = "media" THEN videoExtensions ELSE documentExtensions

\* names an input directory may hold: two eligible files (one with an
\* upper-case extension), one foreign extension, one subdirectory (holding
\* an eligible file)
Pool(p) == {N("a", SrcExt(p)), N("B", SrcExtUpper(p)), N("e", ".xyz"), SubC}
Layouts(p) == {S \in SUBSET Pool(p) : Cardinality(S) <= MaxFiles}

MkFs(E) ==
    LET ps == {e[1] : e \in E}
        dom == ps \cup UNION {Prefixes(q) : q \in ps}
    IN  [q \in dom |-> IF q \in ps THEN (CHOOSE e \in E : e[1] = q)[2] ELSE DirNode]

InputTree(p, S) ==
    {<<Cwd, DirNode>>, <<InDir, DirNode>>}
    \cup {<<fsJoin(InDir, c), IF c = SubC THEN DirNode ELSE SrcNode>> : c \in S}
    \cup (IF SubC \in S
          THEN {<<fsJoin(fsJoin(InDir, SubC), N("d", SrcExt(p))), SrcNode>>}
          ELSE {})

\* the input variable: the directory, the only file of the directory, or
\* nothing and a path that does not exist
InputChoices(p, S) ==
    {InDir}
    \cup (IF Cardinality(S) = 1 THEN {fsJoin(InDir, c) : c \in S \ {SubC}} ELSE {})
    \cup (IF S = {} THEN {NoPath, Gone} ELSE {})

\* getVar values that can stop main() early
GoodVars(p) ==
    [ocrOk |-> TRUE, help |-> FALSE, formatOk |-> TRUE,
     format |-> IF p = "media" THEN "mp3" ELSE "json", output |-> NoPath]
VarChoices(p) ==
    CASE p \in {"text", "review"} ->
            [ocrOk : BOOLEAN, help : {FALSE}, formatOk : {TRUE}, format : {"json"},
             output : {NoPath}]
      [] p = "receipt" ->
            [ocrOk : {TRUE}, help : {FALSE}, formatOk : {TRUE}, format : {"json"},
             output : {NoPath}]
      [] OTHER ->
            [ocrOk : {TRUE}, help : BOOLEAN, formatOk : BOOLEAN, format : {"mp3"},
             output : {NoPath}]

\* the output variable and what is at that place
OutputChoices ==
    {[path |-> NoPath, state |-> "absent"]}
    \cup [path : {OutAbs, OutRel}, state : {"absent", "dir", "file"}]

\* the path below a missing directory is taken where the input directory
\* holds one entry
OutputChoicesFor(S) ==
    OutputChoices
    \cup (IF Cardinality(S) = 1 THEN {[path |-> OutDeep, state |-> "absent"]} ELSE {})

OutputTree(oc) ==
    IF oc.path = NoPath \/ oc.state = "absent" THEN {}
    ELSE {<<fsAbs(oc.path), IF oc.state = "dir" THEN DirNode ELSE SrcNode>>}

\* the files of the run that are eligible and whose outputs go to one
\* directory known beforehand
Eligible(p, S, inp) ==
    {c \in S \ {SubC} : toLowerCase(c.ext) \in AllowList(p)
                         /\ (inp = InDir \/ inp = fsJoin(InDir, c))}

HasTarget(oc) == (oc.path = OutAbs /\ oc.state = "dir") \/ oc.path = NoPath
TargetDir(oc) == IF oc.path = NoPath THEN InDir ELSE fsAbs(oc.path)

OutName(p, b) ==
    CASE p = "text" -> N(b, ".txt")
      [] p = "receipt" -> N(b \o ".receipt", ".json")
      [] p = "review" -> N(b \o ".review", ".txt")
      [] OTHER -> N(b, ".mp3")

\* what a previous run may have left for a file: its output (whole, or not
\* usable) and, for a receipt, its extracted text
PreKinds(p) ==
    [out : {"none", "good", "bad"},
     cache : IF p = "receipt" THEN {"none", "text", "blank"} ELSE {"none"}]
NoPre == [out |-> "none", cache |-> "none"]

\* leftovers are taken in directories that hold eligible files only; beside
\* the inputs, and extracted texts, where there is one file
PreChoices(p, S, inp, oc) ==
    IF HasTarget(oc) /\ Eligible(p, S, InDir) = S
    THEN IF Cardinality(S) = 1 THEN [Eligible(p, S, inp) -> PreKinds(p)]
         ELSE IF oc.path = NoPath THEN [Eligible(p, S, inp) -> {NoPre}]
         ELSE [Eligible(p, S, inp) -> {k \in PreKinds(p) : k.cache = "none"}]
    ELSE [Eligible(p, S, inp) -> {NoPre}]

OldOutput(p, b, kind) ==
    CASE p = "receipt" ->
            IF kind = "good"
            THEN JsonNode([NoRec EXCEPT !.source_file = b, !.type_code = Invoice])
            ELSE FileNode("garbage", NoRec)
      [] p = "text" -> TextNode(IF kind = "good" THEN "text" ELSE "blank", b)
      [] p = "review" -> TextNode(IF kind = "good" THEN "review" ELSE "blank", b)
      [] OTHER -> TextNode(IF kind = "good" THEN "audio" ELSE "blank", b)

PreTree(p, oc, pre) ==
    {<<fsJoin(TargetDir(oc), OutName(p, c.base)), OldOutput(p, c.base, pre[c].out)>> :
        c \in {c \in DOMAIN pre : pre[c].out # "none"}}
    \cup
    {<<fsJoin(fsJoin(TargetDir(oc), N(c.base \o "_md5", "")),
              N(c.base \o ".extracted", ".txt")),
       TextNode(pre[c].cache, c.base)>> :
        c \in {c \in DOMAIN pre : pre[c].cache # "none"}}

Init ==
    \E p \in Pipelines, ow \in BOOLEAN :
      \E S \in Layouts(p) :
        \E oc \in OutputChoicesFor(S), inp \in InputChoices(p, S),
           v \in IF S = {N("a", SrcExt(p))} THEN VarChoices(p) ELSE {GoodVars(p)} :
          \E pre \in PreChoices(p, S, inp, oc) :
          \E tree \in {InputTree(p, S) \cup OutputTree(oc) \cup PreTree(p, oc, pre)} :
            /\ pipeline = p
            /\ vars = [v EXCEPT !.output = oc.path]
            /\ overwrite = ow
            /\ inputPath = inp
            /\ outputPath = oc.path
            /\ isBatchProcessing = FALSE
            /\ fsys = MkFs(tree)
            /\ fsys0 = fsys
            /\ pc = "start"
            /\ documentFiles = <<>>
            /\ listErr = FALSE
            /\ idx = 0
            /\ successCount = 0
            /\ failureCount = 0
            /\ skippedCount = 0
            /\ allReceipts = <<>>
            /\ visited = <<>>
            /\ calls = <<>>
            /\ probes = <<>>
            /\ stages = <<>>
            /\ msgs = <<>>
            /\ now = 1
            /\ summaryFiles = <<>>
            /\ ret = "none"
            /\ earlier = NoRun
            /\ callee = "main"
            /\ argument = <<>>
            /\ returned = NotYet

----------------------------------------------------------------------------
(* main(): the checks before the loop *)

\* input checks and output validation; the four scripts differ in the help
\* flag (media) and the OCR template check (text extraction, contract review)
mainPreconditions(p, v, fs, inp, out, mkdirOk, absOk) ==
    LET isBatch == fsIsDir(fs, inp)
        val == validateOutputPath(fs, out, isBatch, mkdirOk, absOk)
        stop(m) == [ok |-> FALSE, msgs |-> m, fs |-> fs, out |-> out, batch |-> FALSE]
    IN  IF p = "media" /\ v.help THEN stop(<<>>)
        ELSE IF inp = NoPath THEN stop(<<"Input path is required">>)
        ELSE IF p \in {"text", "review"} /\ ~v.ocrOk
             THEN stop(<<"ocr_llm_template is required">>)
        ELSE IF ~fsExists(fs, inp) THEN stop(<<"Input path does not exist">>)
        ELSE IF out = NoPath
             THEN [ok |-> TRUE, msgs |-> <<>>, fs |-> fs, out |-> out, batch |-> isBatch]
        ELSE IF ~val.valid
             THEN [ok |-> FALSE, msgs |-> <<val.error>>, fs |-> val.fs, out |-> out,
                   batch |-> isBatch]
        ELSE [ok |-> TRUE, msgs |-> <<>>, fs |-> val.fs, out |-> val.path,
              batch |-> isBatch]

\* availability checks that leave the second tool of receipt extraction and
\* contract review unprobed
toolChecksFirstOnly(p, v, r1, r2, hasVersion) ==
    LET d == cliCommand("doc-to-text", "probe", NoPath)
        f == cliCommand("ffmpeg", "probe", NoPath)
        c1 == checkCliTool(r1)
        pd == <<[tool |-> "doc-to-text", error |-> r1.error, out |-> r1.out,
                 ok |-> c1.ok]>>
        pf == <<[tool |-> "ffmpeg", error |-> "", out |-> hasVersion,
                 ok |-> ffmpegAvailable(hasVersion)]>>
    IN  IF p # "media"
        THEN [ok |-> c1.ok, calls |-> d, probes |-> pd,
              msgs |-> IF c1.ok THEN <<>> ELSE <<c1.msg>>]
        ELSE IF ~ffmpegAvailable(hasVersion)
        THEN [ok |-> FALSE, calls |-> f, probes |-> pf, msgs |-> <<"FFmpeg not found">>]
        ELSE [ok |-> v.formatOk, calls |-> f, probes |-> pf,
              msgs |-> IF v.formatOk THEN <<>> ELSE <<"Unsupported audio format">>]

\* the availability checks of the pipeline p; r1, r2 are the results of the
\* -h probes, hasVersion is whether `ffmpeg` printed its version
toolChecks(p, v, r1, r2, hasVersion) ==
    LET d == cliCommand("doc-to-text", "probe", NoPath)
        l == cliCommand("llm-caller", "probe", NoPath)
        f == cliCommand("ffmpeg", "probe", NoPath)
        c1 == checkCliTool(r1)
        c2 == checkCliTool(r2)
        pd == <<[tool |-> "doc-to-text", error |-> r1.error, out |-> r1.out,
                 ok |-> c1.ok]>>
        pl == <<[tool |-> "llm-caller", error |-> r2.error, out |-> r2.out,
                 ok |-> c2.ok]>>
        pf == <<[tool |-> "ffmpeg", error |-> "", out |-> hasVersion,
                 ok |-> ffmpegAvailable(hasVersion)]>>
    IN  CASE p = "text" ->
                [ok |-> c1.ok, calls |-> d, probes |-> pd,
                 msgs |-> IF c1.ok THEN <<>> ELSE <<c1.msg>>]
          [] p \in {"receipt", "review"} ->
                IF ~c1.ok
                THEN [ok |-> FALSE, calls |-> d, probes |-> pd, msgs |-> <<c1.msg>>]
                ELSE [ok |-> c2.ok, calls |-> d \o l, probes |-> pd \o pl,
                      msgs |-> IF c2.ok THEN <<>> ELSE <<c2.msg>>]
          [] OTHER ->
                IF ~ffmpegAvailable(hasVersion)
                THEN [ok |-> FALSE, calls |-> f, probes |-> pf,
                      msgs |-> <<"FFmpeg not found">>]
                ELSE IF ~v.formatOk
                THEN [ok |-> FALSE, calls |-> f, probes |-> pf,
                      msgs |-> <<"Unsupported audio format">>]
                ELSE [ok |-> TRUE, calls |-> f, probes |-> pf, msgs |-> <<>>]

\* the discovery of the pipeline p
discover(p, fs, inp, lr) ==
    CASE p = "receipt" -> getReceiptDocumentFiles(fs, inp, documentExtensions, lr)
      [] p = "media" -> getVideoFiles(fs, inp, videoExtensions, lr)
      [] OTHER -> getDocumentFiles(fs, inp, documentExtensions, lr)

\* what the host listing call of the discovery of p can return
ListingResults(p, fs, inp) ==
    IF ~fsIsDir(fs, inp) THEN {[error |-> FALSE, files |-> <<>>]}
    ELSE IF p = "media" THEN FindAllResults(fs, inp)
    ELSE ReaddirResults(fs, inp)

\* a skip check that never skips
skipNever(ow, fs, outputFile) == FALSE

\* a skip check that reads the overwrite flag the other way round
skipWhenOverwriting(ow, fs, outputFile) == ow /\ fsExists(fs, outputFile)

\* if (!overwrite && fs.exists(outputFile)) ... continue
skipExisting(ow, fs, outputFile) == ~ow /\ fsExists(fs, outputFile)

----------------------------------------------------------------------------
(* What the environment can answer while one file is processed *)

\* the run where every tool and every host call does what it is asked
AllFine ==
    [ext |-> "wrote", text |-> "text", llm |-> "invoice", io |-> "ok", md5 |-> TRUE,
     mkdir |-> TRUE, rev |-> FALSE]

\* one thing going wrong in the host: a read, a write, fs.cwd, fs.md5,
\* fs.mkdir, or the text left under the working directory, listed last first
HostFaults ==
    {[AllFine EXCEPT !.io = x] : x \in {"readerr", "writeerr"}}
    \cup {[AllFine EXCEPT !.ext = "cwd", !.io = x] : x \in {"readerr", "writeerr", "cwderr"}}
    \cup {[AllFine EXCEPT !.ext = "cwd", !.rev = TRUE]}

TextOutcomes ==
    {[AllFine EXCEPT !.ext = e] : e \in {"error", "wrote", "cwd", "nothing"}}
    \cup {[AllFine EXCEPT !.ext = e, !.text = "blank"] : e \in {"wrote", "cwd"}}
    \cup HostFaults

ReceiptOutcomes ==
    {[AllFine EXCEPT !.ext = e, !.llm = l] :
        e \in {"wrote", "hashdir", "cwd"},
        l \in {"error", "empty", "garbage", "invoice", "notype", "list"}}
    \cup {[AllFine EXCEPT !.ext = e] : e \in {"error", "nothing"}}
    \cup {[AllFine EXCEPT !.ext = e, !.text = "blank"] : e \in {"wrote", "cwd"}}
    \cup {[AllFine EXCEPT !.md5 = FALSE], [AllFine EXCEPT !.mkdir = FALSE]}
    \cup HostFaults

ReviewOutcomes ==
    {[AllFine EXCEPT !.ext = e, !.llm = l] :
        e \in {"wrote", "cwd"}, l \in {"error", "empty", "invoice"}}
    \cup {[AllFine EXCEPT !.ext = e] : e \in {"error", "nothing"}}
    \cup {[AllFine EXCEPT !.ext = e, !.text = "blank"] : e \in {"wrote", "cwd"}}
    \cup HostFaults

MediaOutcomes == {[AllFine EXCEPT !.ext = e] : e \in {"error", "wrote", "nothing"}}

\* the answers taken where several files are processed: all fine, a tool
\* that fails, or a doc-to-text that leaves its text under the working
\* directory
ToolFaults(p) ==
    {AllFine, [AllFine EXCEPT !.ext = "error"]}
    \cup (IF p # "media" THEN {[AllFine EXCEPT !.ext = "cwd"]} ELSE {})
    \cup (IF p \in {"receipt", "review"} THEN {[AllFine EXCEPT !.llm = "error"]} ELSE {})
    \cup (IF p = "receipt" THEN {[AllFine EXCEPT !.llm = "notype"]} ELSE {})

Outcomes(p, files) ==
    IF Len(files) > 1 THEN ToolFaults(p)
    ELSE CASE p = "text" -> TextOutcomes
           [] p = "receipt" -> ReceiptOutcomes
           [] p = "review" -> ReviewOutcomes
           [] OTHER -> MediaOutcomes

----------------------------------------------------------------------------
(* Actions *)

Start ==
    /\ pc = "start"
    /\ \E mkdirOk \in BOOLEAN, absOk \in BOOLEAN :
        LET r == mainPreconditions(pipeline, vars, fsys, inputPath, outputPath,
                                   mkdirOk, absOk)
        IN  /\ fsys' = r.fs
            /\ outputPath' = r.out
            /\ isBatchProcessing' = r.batch
            /\ msgs' = msgs \o r.msgs
            /\ pc' = IF r.ok THEN "probe" ELSE "done"
            /\ ret' = IF r.ok THEN "none" ELSE "false"
    /\ UNCHANGED <<callvars, earlier, stages, pipeline, vars, probes, overwrite, inputPath, fsys0, documentFiles, listErr,
                   idx, successCount, failureCount, skippedCount, allReceipts,
                   visited, calls, now, summaryFiles>>

CheckTools ==
    /\ pc = "probe"
    /\ \E r1 \in ProbeResultsFor(fsys, inputPath) :
       \E r2 \in IF pipeline \in {"receipt", "review"} /\ checkCliTool(r1).ok
                 THEN ProbeResultsFor(fsys, inputPath) ELSE {r1},
          hasVersion \in IF pipeline = "media" THEN BOOLEAN ELSE {TRUE} :
        LET r == toolChecks(pipeline, vars, r1, r2, hasVersion)
        IN  /\ calls' = calls \o r.calls
            /\ probes' = probes \o r.probes
            /\ msgs' = msgs \o r.msgs
            /\ pc' = IF r.ok THEN "discover" ELSE "done"
            /\ ret' = IF r.ok THEN "none" ELSE "false"
    /\ UNCHANGED <<callvars, earlier, stages, pipeline, vars, overwrite, inputPath, outputPath, isBatchProcessing,
                   fsys, fsys0, documentFiles, listErr, idx, successCount,
                   failureCount, skippedCount, allReceipts, visited, now,
                   summaryFiles>>

Discover ==
    /\ pc = "discover"
    /\ \E lr \in ListingResults(pipeline, fsys, inputPath) :
        LET d == discover(pipeline, fsys, inputPath, lr)
        IN  /\ documentFiles' = d.files
            /\ listErr' = lr.error
            /\ msgs' = msgs \o d.msgs \o
                       (IF d.files = <<>> THEN <<"No supported files found">> ELSE <<>>)
            /\ pc' = IF d.files = <<>> THEN "done" ELSE "loop"
            /\ ret' = IF d.files = <<>> THEN "false" ELSE "none"
            /\ idx' = IF d.files = <<>> THEN idx ELSE 1
    /\ UNCHANGED <<callvars, earlier, stages, pipeline, vars, probes, overwrite, inputPath, outputPath, isBatchProcessing,
                   fsys, fsys0, successCount, failureCount, skippedCount,
                   allReceipts, visited, calls, now, summaryFiles>>

\* a push that loses the record
pushDropped(receipts, data) == receipts

\* allReceipts.push(data)
push(receipts, data) == Append(receipts, data)

InLoop(p) == pc = "loop" /\ pipeline = p /\ idx <= Len(documentFiles)

Visit(f, out, res) == visited' = Append(visited, [file |-> f, out |-> out, result |-> res])

\* an iteration that forgets failureCount++
IterateUncounted(f, out, r) ==
    IF skipExisting(overwrite, fsys, out)
    THEN /\ Visit(f, out, "skipped")
         /\ UNCHANGED <<fsys, calls, stages, successCount, failureCount>>
    ELSE /\ Visit(f, out, IF r.ok THEN "success" ELSE "failure")
         /\ fsys' = r.fs
         /\ calls' = calls \o r.calls
         /\ stages' = stages \o r.stage
         /\ successCount' = IF r.ok THEN successCount + 1 ELSE successCount
         /\ failureCount' = failureCount

\* one iteration of the loops that only count successes and failures
Iterate(f, out, r) ==
    IF skipExisting(overwrite, fsys, out)
    THEN /\ Visit(f, out, "skipped")
         /\ UNCHANGED <<fsys, calls, stages, successCount, failureCount>>
    ELSE /\ Visit(f, out, IF r.ok THEN "success" ELSE "failure")
         /\ fsys' = r.fs
         /\ calls' = calls \o r.calls
         /\ stages' = stages \o r.stage
         /\ successCount' = IF r.ok THEN successCount + 1 ELSE successCount
         /\ failureCount' = IF r.ok THEN failureCount ELSE failureCount + 1

ProcessTextFile ==
    /\ InLoop("text")
    /\ \E o \in Outcomes("text", documentFiles) :
        LET documentFile == documentFiles[idx]
            textOutputFile ==
                determineTextOutputPath(fsys, documentFile, fsBasename(documentFile),
                                        outputPath, isBatchProcessing)
        IN  \E r \in {extractTextFromDocument(fsys, documentFile, textOutputFile, o)} :
                Iterate(documentFile, textOutputFile, r)
    /\ idx' = idx + 1
    /\ now' = now + 1
    /\ UNCHANGED <<callvars, earlier, pipeline, vars, probes, overwrite, inputPath, outputPath, isBatchProcessing,
                   fsys0, pc, documentFiles, listErr, skippedCount, allReceipts, msgs,
                   summaryFiles, ret>>

ProcessReviewFile ==
    /\ InLoop("review")
    /\ \E o \in Outcomes("review", documentFiles) :
        LET documentFile == documentFiles[idx]
            reviewOutputFile ==
                determineReviewOutputPath(fsys, documentFile, fsBasename(documentFile),
                                          outputPath, isBatchProcessing)
        IN  \E r \in {processDocument(fsys, documentFile, reviewOutputFile, o)} :
                Iterate(documentFile, reviewOutputFile, r)
    /\ idx' = idx + 1
    /\ now' = now + 1
    /\ UNCHANGED <<callvars, earlier, pipeline, vars, probes, overwrite, inputPath, outputPath, isBatchProcessing,
                   fsys0, pc, documentFiles, listErr, skippedCount, allReceipts, msgs,
                   summaryFiles, ret>>

ProcessVideoFile ==
    /\ InLoop("media")
    /\ \E o \in Outcomes("media", documentFiles) :
        LET videoFile == documentFiles[idx]
            outputFile ==
                determineOutputPath(fsys, videoFile, fsBasename(videoFile), ".mp3",
                                    outputPath, isBatchProcessing)
        IN  \E r \in {convertVideoToAudio(fsys, videoFile, outputFile, overwrite, o)} :
                Iterate(videoFile, outputFile, r)
    /\ idx' = idx + 1
    /\ now' = now + 1
    /\ UNCHANGED <<callvars, earlier, pipeline, vars, probes, overwrite, inputPath, outputPath, isBatchProcessing,
                   fsys0, pc, documentFiles, listErr, skippedCount, allReceipts, msgs,
                   summaryFiles, ret>>

ProcessReceiptFile ==
    /\ InLoop("receipt")
    /\ \E o \in Outcomes("receipt", documentFiles) :
        LET documentFile == documentFiles[idx]
            receiptOutputFile ==
                determineReceiptOutputPath(fsys, documentFile, fsBasename(documentFile),
                                           outputPath, isBatchProcessing)
            existingData == readExistingReceiptData(fsys, receiptOutputFile,
                                                    o.io # "readerr")
        IN  IF skipExisting(overwrite, fsys, receiptOutputFile)
            THEN /\ Visit(documentFile, receiptOutputFile,
                          IF existingData.ok THEN "skipped" ELSE "unreadable")
                 /\ allReceipts' = IF existingData.ok
                                   THEN push(allReceipts, existingData.rec)
                                   ELSE allReceipts
                 /\ skippedCount' = IF existingData.ok THEN skippedCount + 1
                                    ELSE skippedCount
                 /\ UNCHANGED <<fsys, calls, stages, successCount, failureCount>>
            ELSE \E r \in {processReceipt(fsys, documentFile, receiptOutputFile, o, now)} :
                 /\ Visit(documentFile, receiptOutputFile,
                          IF r.ok THEN "success" ELSE "failure")
                 /\ fsys' = r.fs
                 /\ calls' = calls \o r.calls
                 /\ stages' = stages \o r.stage
                 /\ successCount' = IF r.ok THEN successCount + 1 ELSE successCount
                 /\ failureCount' = IF r.ok THEN failureCount ELSE failureCount + 1
                 /\ allReceipts' = IF r.ok /\ isBatchProcessing
                                   THEN push(allReceipts, r.rec)
                                   ELSE allReceipts
                 /\ UNCHANGED skippedCount
    /\ idx' = idx + 1
    /\ now' = now + 1
    /\ UNCHANGED <<callvars, earlier, pipeline, vars, probes, overwrite, inputPath, outputPath, isBatchProcessing,
                   fsys0, pc, documentFiles, listErr, msgs, summaryFiles, ret>>

\* an end of main() that returns false when no file succeeded
FinishByOutcome ==
    /\ pc = "loop" /\ pipeline # "receipt" /\ idx > Len(documentFiles)
    /\ pc' = "done"
    /\ ret' = IF successCount > 0 THEN "true" ELSE "false"
    /\ UNCHANGED <<callvars, earlier, stages, pipeline, vars, probes, overwrite, inputPath, outputPath, isBatchProcessing,
                   fsys, fsys0, documentFiles, listErr, idx, successCount,
                   failureCount, skippedCount, allReceipts, visited, calls, msgs, now,
                   summaryFiles>>

\* the end of main() of the scripts without summary
Finish ==
    /\ pc = "loop" /\ pipeline # "receipt" /\ idx > Len(documentFiles)
    /\ pc' = "done"
    /\ ret' = "true"
    /\ UNCHANGED <<callvars, earlier, stages, pipeline, vars, probes, overwrite, inputPath, outputPath, isBatchProcessing,
                   fsys, fsys0, documentFiles, listErr, idx, successCount,
                   failureCount, skippedCount, allReceipts, visited, calls, msgs, now,
                   summaryFiles>>

\* the end of main() of the receipt processor: the summary files
Summarize ==
    /\ pc = "loop" /\ pipeline = "receipt" /\ idx > Len(documentFiles)
    /\ \E mkdirOk \in BOOLEAN, writeOk \in BOOLEAN :
        LET summaryOutputPath == IF outputPath # NoPath THEN outputPath ELSE inputPath
            r == createSummaryFile(fsys, allReceipts, summaryOutputPath, vars.format,
                                   overwrite, mkdirOk, writeOk)
        IN  IF isBatchProcessing /\ allReceipts # <<>>
            THEN fsys' = r.fs /\ summaryFiles' = r.results
            ELSE UNCHANGED <<fsys, summaryFiles>>
    /\ pc' = "done"
    /\ ret' = "true"
    /\ UNCHANGED <<callvars, earlier, stages, pipeline, vars, probes, overwrite, inputPath, outputPath, isBatchProcessing,
                   fsys0, documentFiles, listErr, idx, successCount, failureCount,
                   skippedCount, allReceipts, visited, calls, msgs, now>>

Next ==
    \/ Start
    \/ CheckTools
    \/ Discover
    \/ ProcessTextFile
    \/ ProcessReceiptFile
    \/ ProcessReviewFile
    \/ ProcessVideoFile
    \/ Finish
    \/ Summarize

Spec == Init /\ [][Next]_mvars

----------------------------------------------------------------------------
(* The same batch run twice: main() is started again with the variables   *)
(* it was started with, on the file system the first run left, when the   *)
(* first run was a batch with overwrite off that returned true.            *)

Rerun ==
    /\ pc = "done" /\ ret = "true"
    /\ ~overwrite /\ isBatchProcessing
    /\ ~earlier.ran
    /\ earlier' = [ran |-> TRUE, visited |-> visited, fsys |-> fsys]
    /\ outputPath' = vars.output
    /\ isBatchProcessing' = FALSE
    /\ fsys0' = fsys
    /\ pc' = "start"
    /\ documentFiles' = <<>>
    /\ listErr' = FALSE
    /\ idx' = 0
    /\ successCount' = 0
    /\ failureCount' = 0
    /\ skippedCount' = 0
    /\ allReceipts' = <<>>
    /\ visited' = <<>>
    /\ calls' = <<>>
    /\ probes' = <<>>
    /\ stages' = <<>>
    /\ msgs' = <<>>
    /\ summaryFiles' = <<>>
    /\ ret' = "none"
    /\ UNCHANGED <<callvars, pipeline, vars, overwrite, inputPath, fsys, now>>

TwiceNext == Next \/ Rerun

Twice == Init /\ [][TwiceNext]_mvars

----------------------------------------------------------------------------
(* The helper functions called on their own: one call of one function on  *)
(* one argument drawn from a bounded set.                                  *)

\* no run of main() is under way
Parked ==
    /\ pipeline = "receipt"
    /\ vars = GoodVars("receipt")
    /\ overwrite = FALSE
    /\ inputPath = NoPath
    /\ outputPath = NoPath
    /\ isBatchProcessing = FALSE
    /\ fsys = MkFs({<<Cwd, DirNode>>})
    /\ fsys0 = fsys
    /\ pc = "done"
    /\ documentFiles = <<>>
    /\ listErr = FALSE
    /\ idx = 0
    /\ successCount = 0
    /\ failureCount = 0
    /\ skippedCount = 0
    /\ allReceipts = <<>>
    /\ visited = <<>>
    /\ calls = <<>>
    /\ probes = <<>>
    /\ stages = <<>>
    /\ msgs = <<>>
    /\ now = 1
    /\ summaryFiles = <<>>
    /\ ret = "none"
    /\ earlier = NoRun

\* llm-caller outputs: prose or white space, then one JSON text, a fenced
\* block (with or without the word json and white space inside, holding
\* nothing, one JSON text, two, or prose), a fence that is never closed, or
\* two fenced blocks, then prose or white space
MaxInner == 2
Margins == {<<>>, <<Prose>>, <<Ws>>}
Inners ==
    {<<>>, <<Prose>>} \cup UNION {[1..n -> JsonTexts] : n \in 1..MaxInner}
Blocks ==
    {<<Fence>> \o tag \o w1 \o inner \o w2 \o <<Fence>> :
        tag \in {<<>>, <<Tag>>}, w1 \in {<<>>, <<Ws>>}, w2 \in {<<>>, <<Ws>>},
        inner \in Inners}
Bodies ==
    {<<t>> : t \in JsonTexts} \cup Blocks
    \cup {<<Fence, t>> : t \in JsonTexts}
    \cup {<<Fence, a, Fence, Ws, Fence, b, Fence>> : a, b \in JsonTexts}
Payloads == {lead \o body \o trail : lead \in Margins, trail \in Margins, body \in Bodies}

\* records given to createSummaryFile: without type code, with the type
\* code at top level or inside "fields", of type "general", and of two types
\* that differ only in characters the file name does not keep; the record
\* at position i is the one extracted from the i-th file
MaxReceipts == 3
TypeAB == <<"A", " ", "b">>
Typeab == <<"a", "_", "b">>
Shapes ==
    {[NoRec EXCEPT !.type_code = ty] : ty \in {<<>>, Invoice, General, TypeAB, Typeab}}
    \cup {[kind |-> "object", source_file |-> "", type_code |-> <<>>, stamp |-> 0,
           fields |-> [type_code |-> ty]] : ty \in {<<>>, Invoice}}
Collected ==
    UNION {{[i \in 1..n |-> [shapes[i] EXCEPT !.source_file = ToString(i), !.stamp = i]] :
                shapes \in [1..n -> Shapes]} : n \in 0..MaxReceipts}

\* the output directory before the call: without "total", with an empty
\* "total", or with a summary of an earlier run in it
OldList(outputFormat) ==
    ListNode(outputFormat, <<[NoRec EXCEPT !.source_file = "old", !.type_code = Invoice]>>)
SummaryDirs(outputFormat) ==
    LET total == fsJoin(OutAbs, N("total", ""))
        old == fsJoin(total, N("receipts_invoice", "." \o outputFormat))
    IN  {MkFs({<<OutAbs, DirNode>>}),
         MkFs({<<total, DirNode>>}),
         MkFs({<<total, DirNode>>, <<old, OldList(outputFormat)>>})}
SummaryCalls ==
    UNION {[receipts : Collected, fs : SummaryDirs(outputFormat),
            outputFormat : {outputFormat}, overwrite : BOOLEAN,
            fault : {"none", "mkdir", "write"}] : outputFormat \in {"json", "csv"}}

\* the records of a list that a split puts on one side, in their order;
\* inA[i] tells whether the i-th record goes to the first sub-list
RECURSIVE Part(_, _, _)
Part(receipts, inA, side) ==
    IF receipts = <<>> THEN <<>>
    ELSE (IF inA[1] = side THEN <<receipts[1]>> ELSE <<>>)
         \o Part(Tail(receipts), Tail(inA), side)

\* an output directory that holds nothing
EmptyOut == MkFs({<<OutAbs, DirNode>>})

\* type codes given to sanitizeFileName: a lower-case and an upper-case
\* letter, a digit, the underscore, the hyphen, a blank and a dot
MaxName == 3
NameChars == {"a", "Z", "7", "_", "-", " ", "."}
TypeNames == UNION {[1..n -> NameChars] : n \in 0..MaxName}

\* records given to flattenObject and createTotalCsv: entries under a plain
\* key, a key with a dot, a key with a comma, "fields" and "type-code",
\* holding strings (plain, with a comma, a quote, a newline), a number, null,
\* arrays and objects, some of them nested or under "fields"; flattenObject
\* is given up to MaxKeys entries
MaxKeys == 2
KeyA == <<"a">>
KeyB == <<"b">>
Keys == {KeyA, <<"a", ".", "b">>, <<"a", ",", "b">>, KeyFields, KeyTypeCode}
X == StrV(<<"x">>)
One == NumV(<<"1">>)
Leaves ==
    {X, StrV(<<"a", ",", "b">>), StrV(<<"q", "\"">>), StrV(<<"x", "\n", "y">>), One, NullV}
Arrays == {ArrV(<<X, One>>), ArrV(<<StrV(<<"a", ",", "b">>), NullV>>)}
Nested ==
    {ObjV(<<Entry(KeyB, X)>>),
     ObjV(<<Entry(KeyTypeCode, X)>>),
     ObjV(<<Entry(KeyB, ArrV(<<X, One>>))>>),
     ObjV(<<Entry(KeyA, ObjV(<<Entry(KeyB, X)>>))>>),
     ObjV(<<Entry(KeyFields, ObjV(<<Entry(KeyB, X)>>))>>)}
Records(n, values) ==
    {ObjV([i \in 1..n |-> Entry(ks[i], vs[i])]) :
        ks \in {k \in [1..n -> Keys] : \A i, j \in 1..n : i # j => k[i] # k[j]},
        vs \in [1..n -> values]}

\* the receipts of one group given to createTotalCsv: up to two records of
\* one entry each
Tables ==
    LET rows == Records(1, Leaves \cup Arrays \cup Nested)
    IN  {<<>>} \cup {<<r>> : r \in rows} \cup {<<r, q>> : r \in rows, q \in rows}

CallInit ==
    /\ Parked
    /\ returned = NotYet
    /\ \/ callee = "parseExtractedData" /\ argument \in Payloads
       \/ callee = "createSummaryFile" /\ argument \in SummaryCalls
       \/ callee = "sanitizeFileName" /\ argument \in TypeNames
       \/ /\ callee = "flattenObject"
          /\ \E n \in 0..MaxKeys :
                argument \in [obj : Records(n, {X, One, ArrV(<<X, One>>)} \cup Nested),
                              again : {FALSE}]
       \/ callee = "createTotalCsv" /\ argument \in Tables
       \/ /\ callee = "createSummaryFile of a split"
          /\ \E receipts \in Collected :
                argument \in [receipts : {receipts},
                              inA : [DOMAIN receipts -> BOOLEAN],
                              outputFormat : {"json", "csv"}, overwrite : BOOLEAN]

ParseOne ==
    /\ callee = "parseExtractedData" /\ ~returned.done
    /\ returned' = Done(parseExtractedData(argument, "a.pdf", now))
    /\ UNCHANGED <<runvars, callee, argument>>

SummaryOne ==
    /\ callee = "createSummaryFile" /\ ~returned.done
    /\ returned' = Done(createSummaryFile(argument.fs, argument.receipts, OutAbs,
                                          argument.outputFormat, argument.overwrite,
                                          argument.fault # "mkdir",
                                          argument.fault # "write"))
    /\ UNCHANGED <<runvars, callee, argument>>

SanitizeOne ==
    /\ callee = "sanitizeFileName" /\ ~returned.done
    /\ returned' = Done(sanitizeFileName(argument))
    /\ UNCHANGED <<runvars, callee, argument>>

FlattenOne ==
    /\ callee = "flattenObject" /\ ~returned.done
    /\ returned' = Done(flattenObject(argument.obj, <<>>))
    /\ UNCHANGED <<runvars, callee, argument>>

\* the flattened record is given to flattenObject once more
FlattenAgain ==
    /\ callee = "flattenObject" /\ returned.done /\ ~argument.again
    /\ argument' = [obj |-> returned.value, again |-> TRUE]
    /\ returned' = NotYet
    /\ UNCHANGED <<runvars, callee>>

CsvOne ==
    /\ callee = "createTotalCsv" /\ ~returned.done
    /\ returned' = Done(createTotalCsv(argument))
    /\ UNCHANGED <<runvars, callee, argument>>

\* createSummaryFile on a whole list and on the two sub-lists of a split of
\* it, each call into an empty output directory and without host error
SplitOne ==
    /\ callee = "createSummaryFile of a split" /\ ~returned.done
    /\ LET summary(receipts) ==
               createSummaryFile(EmptyOut, receipts, OutAbs, argument.outputFormat,
                                 argument.overwrite, TRUE, TRUE)
       IN  returned' = Done([whole |-> summary(argument.receipts),
                             a |-> summary(Part(argument.receipts, argument.inA, TRUE)),
                             b |-> summary(Part(argument.receipts, argument.inA, FALSE))])
    /\ UNCHANGED <<runvars, callee, argument>>

CallNext ==
    \/ ParseOne
    \/ FlattenOne
    \/ FlattenAgain
    \/ CsvOne
    \/ SanitizeOne
    \/ SummaryOne
    \/ SplitOne

Calls == CallInit /\ [][CallNext]_mvars

----------------------------------------------------------------------------
(* Properties *)

\* the file the loop has reached and its resolved output
CurrentFile == documentFiles[idx]
CurrentOutput ==
    OutputFileOf(pipeline, fsys, CurrentFile, outputPath, isBatchProcessing)
AtFile == pc = "loop" /\ idx <= Len(documentFiles)

\* the calls of one step
NewCalls == {calls'[k] : k \in (Len(calls) + 1)..Len(calls')}

\* discovery has run
Discovered ==
    \/ pc = "loop"
    \/ pc = "done" /\ (ret = "true" \/ "No supported files found" \in Range(msgs))

ResultCount(res) == Cardinality({i \in 1..Len(visited) : visited[i].result = res})

\* C1: in every pipeline, when overwrite is false and the resolved output of
\* the file the loop has reached exists, the step for that file invokes no
\* tool, leaves the output file as it is and changes neither successCount
\* nor failureCount.
C1_SkipChangesNothing ==
    [][(AtFile /\ ~overwrite /\ fsExists(fsys, CurrentOutput))
        => /\ calls' = calls
           /\ fsExists(fsys', CurrentOutput)
           /\ fsys'[fsAbs(CurrentOutput)] = fsys[fsAbs(CurrentOutput)]
           /\ successCount' = successCount
           /\ failureCount' = failureCount]_mvars

C1_Witness ==
    /\ ~overwrite
    /\ Len(visited) = 2
    /\ visited[1].result = "success"
    /\ visited[2].result = "skipped"
    /\ fsys0[fsAbs(visited[2].out)] = fsys[fsAbs(visited[2].out)]

\* the records of the visited files that were skipped with a readable
\* output or processed with success, in the order of the visits
RECURSIVE RecordsOf(_)
RecordsOf(vs) ==
    IF vs = <<>> THEN <<>>
    ELSE (IF vs[1].result \in {"skipped", "success"}
          THEN <<fsys[fsAbs(vs[1].out)].rec>> ELSE <<>>) \o RecordsOf(Tail(vs))

\* C2: in a receipt batch run with overwrite=false the aggregation list
\* holds, in discovery order, the record parsed from the existing output of
\* every skipped file whose output was read and parsed and the record of
\* every file newly processed with success; a skipped file whose output
\* is a readable record is left out only when the read itself failed.
C2_AggregationHoldsResumed ==
    (pipeline = "receipt" /\ isBatchProcessing /\ ~overwrite /\ pc \in {"loop", "done"})
        => /\ allReceipts = RecordsOf(visited)
           /\ skippedCount = ResultCount("skipped")
           /\ \A i \in 1..Len(visited) :
                visited[i].result = "skipped" => fsys0[fsAbs(visited[i].out)].k = "json"

C2_Witness ==
    /\ pipeline = "receipt" /\ isBatchProcessing /\ ~overwrite /\ pc = "done"
    /\ Len(visited) = 2
    /\ visited[1].result = "skipped" /\ visited[2].result = "success"
    /\ Len(allReceipts) = 2
    /\ allReceipts[1].stamp = 0 /\ allReceipts[2].stamp > 0

\* C3 (as stated): in the receipt pipeline with overwrite=true, a step that
\* processes with success a file whose final output exists invokes
\* llm-caller for that file and leaves in the output the record produced
\* in that step.
C3_OverwriteReprocesses ==
    [][(AtFile /\ pipeline = "receipt" /\ overwrite /\ fsExists(fsys, CurrentOutput)
            /\ successCount' = successCount + 1)
        => /\ \E c \in NewCalls : c.tool = "llm-caller" /\ c.file = CurrentFile
           /\ fsys'[fsAbs(CurrentOutput)].rec.stamp = now]_mvars

\* C4 (as stated): a run that returns false has visited no file, has made
\* no tool call for a file and leaves the file system as it found it.
C4_AbortLeavesNothing ==
    (pc = "done" /\ ret = "false")
        => /\ visited = <<>>
           /\ \A k \in 1..Len(calls) : calls[k].kind = "probe"
           /\ fsys = fsys0

InFlight(k) ==
    Cardinality({j \in 1..k : calls[j].ev = "begin"})
        - Cardinality({j \in 1..k : calls[j].ev = "end"})
FilePos(f) == CHOOSE i \in 1..Len(documentFiles) : documentFiles[i] = f

\* C6: at most one tool invocation is in progress at any point of the run,
\* each invocation has ended when the next one begins, and every event of
\* an invocation for an earlier file comes before every event of an
\* invocation for a later file.
C6_OneInvocationAtATime ==
    /\ \A k \in 1..Len(calls) : InFlight(k) \in {0, 1}
    /\ InFlight(Len(calls)) = 0
    /\ \A j, k \in 1..Len(calls) :
        (calls[j].kind = "work" /\ calls[k].kind = "work"
            /\ FilePos(calls[j].file) < FilePos(calls[k].file)) => j < k

C6_Witness ==
    /\ Len(documentFiles) = 2
    /\ \E j, k \in 1..Len(calls) :
        /\ calls[j].kind = "work" /\ calls[k].kind = "work"
        /\ calls[j].file = documentFiles[1] /\ calls[k].file = documentFiles[1]
        /\ calls[j].tool = "doc-to-text" /\ calls[k].tool = "llm-caller"
    /\ \E k \in 1..Len(calls) : calls[k].kind = "work" /\ calls[k].file = documentFiles[2]

\* the entries discovery has to return: the non-directory direct entries
\* of the input directory with an allow-listed extension, or the input
\* file itself
EligibleEntries ==
    IF fsIsDir(fsys0, inputPath)
    THEN {q \in Children(fsys0, inputPath) :
            ~fsys0[q].dir /\ toLowerCase(fsExt(q)) \in AllowList(pipeline)}
    ELSE {q \in {fsAbs(inputPath)} : toLowerCase(fsExt(q)) \in AllowList(pipeline)}

\* C7: the discovered list is sorted ascending by path, holds no directory
\* and no file with an extension outside the allow-list of the pipeline,
\* and, when the listing succeeded, holds every eligible entry.
C7_DiscoverySortedAndFiltered ==
    Discovered
        => /\ IsSorted(documentFiles)
           /\ \A f \in Range(documentFiles) :
                fsIsFile(fsys0, f) /\ toLowerCase(fsExt(f)) \in AllowList(pipeline)
           /\ ~listErr => EligibleEntries \subseteq Range(documentFiles)

C7_Witness ==
    /\ Discovered /\ ~listErr
    /\ Cardinality(Children(fsys0, inputPath)) = 3
    /\ Len(documentFiles) = 2
    /\ Range(documentFiles) = EligibleEntries

\* C8 (as stated): when the input is a directory, every discovered file is
\* a direct entry of it.
C8_DirectEntriesOnly ==
    (Discovered /\ fsIsDir(fsys0, inputPath))
        => \A f \in Range(documentFiles) : fsDirname(f) = fsAbs(inputPath)

\* C9 (as stated): a run whose listing failed discovers nothing and reports
\* something else than what a run with no matching file reports.
C9_ListingFailureIsSignalled ==
    (Discovered /\ listErr)
        => /\ documentFiles = <<>>
           /\ msgs # <<"No supported files found">>

\* C10: in batch mode, a run past validateOutputPath has a directory at
\* the output path; an output path that held a non-directory is rejected
\* with "output path must be a directory" and the file system unchanged;
\* an absent output path is a directory afterwards, or the run has
\* stopped with "Cannot create output directory" and the file system
\* unchanged.
C10_BatchOutputIsDirectory ==
    (pc # "start" /\ isBatchProcessing /\ outputPath # NoPath)
        => /\ (pc # "done" \/ ret = "true") => fsIsDir(fsys, outputPath)
           /\ fsIsFile(fsys0, outputPath)
                => /\ pc = "done" /\ ret = "false"
                   /\ msgs = <<"output path must be a directory">>
                   /\ fsys = fsys0
           /\ ~fsExists(fsys0, outputPath)
                => \/ fsIsDir(fsys, outputPath)
                   \/ /\ pc = "done" /\ ret = "false"
                      /\ msgs = <<"Cannot create output directory">>
                      /\ fsys = fsys0

C10_Witness ==
    /\ pc = "probe" /\ isBatchProcessing /\ outputPath # NoPath
    /\ ~fsExists(fsys0, outputPath)
    /\ fsIsDir(fsys, outputPath)

\* main() has called validateOutputPath in single-file mode
ValidatedSingle ==
    /\ pc # "start"
    /\ fsIsFile(fsys0, inputPath)
    /\ vars.output # NoPath
    /\ ~(pipeline = "media" /\ vars.help)
    /\ ~(pipeline \in {"text", "review"} /\ ~vars.ocrOk)
\* main() returned at the output validation
RejectedAtStart == pc = "done" /\ calls = <<>>

\* C11 (as stated): in single-file mode an output path that exists is
\* accepted, returned in absolute form and nothing changes on the file
\* system; the only rejection is the failed creation of the missing parent
\* of an absent path.
C11_SingleFileAcceptsExisting ==
    ValidatedSingle
        => /\ fsExists(fsys0, vars.output)
                => /\ ~RejectedAtStart
                   /\ outputPath = fsAbs(vars.output)
                   /\ pc = "probe" => fsys = fsys0
           /\ RejectedAtStart
                => /\ msgs = <<"Cannot create parent directory">>
                   /\ ~fsExists(fsys0, vars.output)
                   /\ ~fsExists(fsys0, fsDirname(vars.output))
                   /\ fsys = fsys0

\* C11 (amended): as C11, but the path returned is the absolute form or,
\* when fs.abs reports an error, the path as given.
C11_SingleFileAcceptsExistingOrAsGiven ==
    ValidatedSingle
        => /\ fsExists(fsys0, vars.output)
                => /\ ~RejectedAtStart
                   /\ outputPath \in {fsAbs(vars.output), vars.output}
                   /\ pc = "probe" => fsys = fsys0
           /\ RejectedAtStart
                => /\ msgs = <<"Cannot create parent directory">>
                   /\ ~fsExists(fsys0, vars.output)
                   /\ ~fsExists(fsys0, fsDirname(vars.output))
                   /\ fsys = fsys0

C11_Witness ==
    /\ ValidatedSingle /\ pc = "probe"
    /\ fsIsFile(fsys0, vars.output)
    /\ vars.output # fsAbs(vars.output)
    /\ outputPath = fsAbs(vars.output)
    /\ fsys = fsys0

\* validateOutputPath has returned valid, in single-file mode, for an absent
\* path with an absent parent
ParentCreated ==
    /\ ValidatedSingle /\ pc = "probe"
    /\ ~fsExists(fsys0, vars.output)
    /\ ~fsExists(fsys0, fsDirname(vars.output))

\* C12 (as stated): resolving an absent path with an absent parent creates
\* the parent and returns the absolute form; resolving the path again
\* returns the same absolute form and changes nothing.
C12_ResolveTwice ==
    ParentCreated
        => /\ fsIsDir(fsys, fsDirname(vars.output))
           /\ outputPath = fsAbs(vars.output)
           /\ \A mkdirOk \in BOOLEAN, absOk \in BOOLEAN :
                LET r == validateOutputPath(fsys, vars.output, FALSE, mkdirOk, absOk)
                IN  r.valid /\ r.path = outputPath /\ r.fs = fsys

\* C12 (amended): as C12, but each call returns the absolute form or, when
\* its fs.abs reports an error, the path as given; two calls whose fs.abs
\* succeeds return the same absolute form.
C12_ResolveTwiceOrAsGiven ==
    ParentCreated
        => /\ fsIsDir(fsys, fsDirname(vars.output))
           /\ ~fsExists(fsys, vars.output)
           /\ outputPath \in {fsAbs(vars.output), vars.output}
           /\ \A mkdirOk \in BOOLEAN, absOk \in BOOLEAN :
                LET r == validateOutputPath(fsys, vars.output, FALSE, mkdirOk, absOk)
                IN  /\ r.valid
                    /\ r.path = IF absOk THEN fsAbs(vars.output) ELSE vars.output
                    /\ r.fs = fsys

C12_Witness ==
    /\ ParentCreated
    /\ outputPath = fsAbs(vars.output)
    /\ fsys # fsys0
    /\ fsIsDir(fsys, fsDirname(vars.output))

\* the extension a pipeline gives to an output path that has none
DefaultExt(p) ==
    CASE p = "text" -> ".txt"
      [] p = "receipt" -> ".json"
      [] p = "review" -> ".txt"
      [] OTHER -> ".mp3"

\* the four cases of the per-file output path
IntoDirectory == outputPath # NoPath /\ (isBatchProcessing \/ fsIsDir(fsys, outputPath))
Verbatim == outputPath # NoPath /\ ~fsIsDir(fsys, outputPath) /\ fsExt(outputPath) # ""
ExtAppended == outputPath # NoPath /\ ~fsIsDir(fsys, outputPath) /\ fsExt(outputPath) = ""
BesideInput == outputPath = NoPath

HelpProbes == {k \in DOMAIN probes : probes[k].tool # "ffmpeg"}

\* the class the failure classification gives an error text
ClassOf(error) ==
    CASE error \in {"whitelist", "whitelist+notfound"} -> "blocked by security whitelist"
      [] error = "notfound" -> "command not found"
      [] OTHER -> "command failed"

Reported(m) == \E i \in DOMAIN msgs : msgs[i] = m

\* C14 as stated: every probe that returned an error reports the tool
\* unavailable, a policy block as blocked even when the text also names a
\* missing command, then a missing command, and any other error as a generic
\* failure.
C14_EveryErrorUnavailable ==
    \A k \in HelpProbes :
        probes[k].error # "" =>
            /\ ~probes[k].ok
            /\ Reported(ClassOf(probes[k].error))

\* C14: a probe whose error is a policy block reports blocked, also when the
\* text names a missing command too; otherwise a missing command reports
\* not-found; both report the tool unavailable whatever was printed.  Any other
\* error is a generic failure that reports the tool unavailable exactly when
\* the probe printed nothing; with something printed the tool is available.
C14_ClassificationOrder ==
    \A k \in HelpProbes :
        LET pr == probes[k]
        IN  /\ pr.error \in {"whitelist", "whitelist+notfound", "notfound"} =>
                ~pr.ok /\ Reported(ClassOf(pr.error))
            /\ pr.error = "other" => (pr.ok <=> pr.out)
            /\ pr.error = "other" /\ ~pr.out => Reported("command failed")
            /\ pr.error = "" => pr.ok
            /\ ~pr.ok => ret = "false" /\ k = Len(probes)

\* a probe rejected by the whitelist whose text also names a missing command
C14_Witness ==
    \E k \in HelpProbes :
        /\ probes[k].error = "whitelist+notfound"
        /\ ~probes[k].ok
        /\ Reported("blocked by security whitelist")
        /\ ~Reported("command not found")

----------------------------------------------------------------------------

\* the tools the pipeline invokes for its work
ToolsOf(p) ==
    CASE p = "text" -> {"doc-to-text"}
      [] p \in {"receipt", "review"} -> {"doc-to-text", "llm-caller"}
      [] OTHER -> {"ffmpeg"}

WorkCalls == {k \in DOMAIN calls : calls[k].kind = "work"}

ProbedBefore(t, k) ==
    /\ \E j \in 1..(k - 1) :
        calls[j].kind = "probe" /\ calls[j].tool = t /\ calls[j].ev = "end"
    /\ \E j \in DOMAIN probes : probes[j].tool = t /\ probes[j].ok

\* C15: before any invocation that does real work every tool of the pipeline
\* has been probed, the probe has returned and it found the tool available;
\* once a probe reports a tool unavailable no real-work invocation is made.
C15_ProbedBeforeWork ==
    /\ \A k \in WorkCalls :
        /\ calls[k].tool \in ToolsOf(pipeline)
        /\ \A t \in ToolsOf(pipeline) : ProbedBefore(t, k)
    /\ (\E j \in DOMAIN probes : ~probes[j].ok) => WorkCalls = {}

\* a run of the two-tool pipelines whose second tool did real work
C15_Witness ==
    /\ pipeline \in {"receipt", "review"}
    /\ \E k \in WorkCalls : calls[k].tool = "llm-caller" /\ calls[k].ev = "end"
    /\ Len(probes) = 2

----------------------------------------------------------------------------

LastStage == stages[Len(stages)]

\* the last file of the loop went through its extraction stage and nothing
\* has touched the files since
JustStaged ==
    /\ pc = "loop"
    /\ stages # <<>> /\ visited # <<>>
    /\ LastStage.file = visited[Len(visited)].file

\* C16: the fallback search runs only after doc-to-text was invoked, returned
\* without error and left no file at the expected path; it never runs when the
\* expected file is there and never after a tool error.
C16_FallbackOnlyWhenMissing ==
    \A k \in DOMAIN stages :
        stages[k].searched =>
            /\ stages[k].invoked
            /\ ~stages[k].toolError
            /\ ~stages[k].present

\* a fallback search of receipt extraction or contract review that found the
\* text
C16_Witness ==
    /\ \E k \in DOMAIN stages : stages[k].searched /\ stages[k].found # NoPath
    /\ pipeline \in {"receipt", "review"}

\* C17 as stated: in text extraction, receipt extraction and contract review,
\* a stage that missed its expected output, found a candidate and succeeded
\* leaves the text at the expected path and the found file removed; a stage
\* whose search found nothing fails.
C17_FoundTextIsRelocated ==
    /\ JustStaged /\ LastStage.searched /\ LastStage.found # NoPath /\ LastStage.ok =>
            /\ fsExists(fsys, LastStage.expected)
            /\ ~fsExists(fsys, LastStage.found)
    /\ \A k \in DOMAIN stages :
        stages[k].searched /\ stages[k].found = NoPath => ~stages[k].ok

----------------------------------------------------------------------------

\* doc-to-text did real work on the file f
Extracted(f) ==
    \E k \in DOMAIN calls :
        calls[k].tool = "doc-to-text" /\ calls[k].kind = "work" /\ calls[k].file = f

\* C18: in receipt extraction, a document whose extracted text was already at
\* its staging path when the run started is processed without invoking
\* doc-to-text, and the text read for the next stage is that file, whatever
\* the overwrite flag.
C18_CachedTextIsReused ==
    pipeline = "receipt" =>
        \A k \in DOMAIN stages :
            LET st == stages[k]
            IN  fsExists(fsys0, st.expected) =>
                    /\ ~st.invoked /\ ~st.searched
                    /\ ~Extracted(st.file)
                    /\ st.used \in {NoPath, st.expected}
                    /\ st.used = st.expected => st.text = fsys0[fsAbs(st.expected)].k
                    /\ st.llm => st.used = st.expected /\ st.text = "text"

\* a cached text handed to llm-caller in a run that overwrites
C18_Witness ==
    /\ pipeline = "receipt" /\ overwrite
    /\ \E k \in DOMAIN stages :
        /\ fsExists(fsys0, stages[k].expected)
        /\ stages[k].llm
        /\ \E j \in DOMAIN calls : calls[j].tool = "llm-caller" /\ calls[j].kind = "work"

\* the fingerprint of a stage came from fs.md5
Hashed(st) == st.fingerprint = calculateMd5(fsys0, st.file, TRUE, 0)

\* C19 as stated: a run started later, on the same unchanged document and with
\* fs.md5 answering as it did, computes the fingerprint this run has computed,
\* through fs.md5 and through the name and time fallback alike.
C19_FingerprintIsStable ==
    pipeline = "receipt" =>
        \A k \in DOMAIN stages :
            calculateMd5(fsys0, stages[k].file, Hashed(stages[k]), now)
                = stages[k].fingerprint

----------------------------------------------------------------------------

StageOf(f) == {k \in DOMAIN stages : stages[k].file = f}

\* C20: in text extraction, receipt extraction and contract review a file is
\* reported a success only when the text read for it was not empty, and
\* llm-caller does real work only on a file whose text was not empty; the
\* text may come from the expected path, from a cached file or from the
\* fallback search.
C20_EmptyTextNeverSucceeds ==
    pipeline # "media" =>
        /\ \A k \in DOMAIN visited :
            visited[k].result = "success" =>
                \E j \in StageOf(visited[k].file) : stages[j].text = "text"
        /\ \A j \in DOMAIN stages :
            stages[j].text # "text" => ~stages[j].ok /\ ~stages[j].llm
        /\ \A c \in DOMAIN calls :
            calls[c].tool = "llm-caller" /\ calls[c].kind = "work" =>
                \E j \in StageOf(calls[c].file) : stages[j].llm /\ stages[j].text = "text"

\* an empty text that the fallback search found, and the file failed
C20_Witness ==
    /\ pipeline \in {"receipt", "review"}
    /\ \E j \in DOMAIN stages :
        /\ stages[j].text = "blank"
        /\ stages[j].found # NoPath /\ stages[j].used = stages[j].found
        /\ \E k \in DOMAIN visited :
            visited[k].file = stages[j].file /\ visited[k].result = "failure"

----------------------------------------------------------------------------

\* the candidate as the claim describes it: what the first fenced block
\* holds (its label json aside), the whole payload when there is no block
Fenced(payload) == Cardinality(FencesOf(payload)) >= 2
BlockContent(payload) ==
    LET open == Least(FencesOf(payload))
        close == Least(FencesOf(payload) \ {open})
        inside == SubSeq(payload, open + 1, close - 1)
    IN  IF inside # <<>> /\ inside[1] = Tag THEN Tail(inside) ELSE inside
Candidate(payload) == IF Fenced(payload) THEN BlockContent(payload) ELSE payload

\* the candidate is one JSON object, white space aside
ParsesAsRecord(candidate) ==
    \E i \in DOMAIN candidate :
        /\ candidate[i] \in {ObjInv, ObjPlain}
        /\ \A j \in DOMAIN candidate \ {i} : candidate[j] = Ws

Parsed == callee = "parseExtractedData" /\ returned.done

\* C21 as stated: parseExtractedData succeeds exactly when the content of the
\* first fenced block, or the whole payload when there is no block, parses as
\* a record, and what it returns on success is that record, never an empty one.
C21_SucceedsIffRecord ==
    Parsed =>
        /\ returned.value.ok <=> ParsesAsRecord(Candidate(argument))
        /\ returned.value.ok =>
            /\ returned.value.rec.kind = "object"
            /\ returned.value.rec.source_file # ""

\* the visit main() made last, while the loop runs
LastVisit == visited[Len(visited)]
Returned(res) ==
    /\ pipeline = "receipt" /\ pc = "loop" /\ visited # <<>>
    /\ LastVisit.result = res

\* C22 as stated: when processReceipt has returned a success for a file, the
\* output file at the resolved path holds a record that carries the name of
\* that file and an extraction time, and in a batch it is the record that was
\* collected for the summary
C22_SuccessCarriesMetadata ==
    Returned("success") =>
        /\ fsIsFile(fsys, LastVisit.out)
        /\ fsys[fsAbs(LastVisit.out)].k = "json"
        /\ fsys[fsAbs(LastVisit.out)].rec.kind = "object"
        /\ fsys[fsAbs(LastVisit.out)].rec.source_file = fsBasename(LastVisit.file)
        /\ isBatchProcessing =>
               allReceipts[Len(allReceipts)] = fsys[fsAbs(LastVisit.out)].rec

\* the step of the receipt loop that skips a file whose existing output does
\* not give a record: the output is there and overwrite is off, and the file
\* is no parsable JSON file or reading it failed
SkipsUnreadable ==
    /\ pipeline = "receipt" /\ ~overwrite
    /\ Len(visited') = Len(visited) + 1
    /\ LET out == visited'[Len(visited')].out
       IN  /\ fsExists(fsys, out)
           /\ \/ ~fsIsFile(fsys, out)
              \/ fsys[fsAbs(out)].k # "json"
              \/ visited'[Len(visited')].result = "unreadable"

\* C23: a skipped file whose existing output cannot be read or parsed leaves
\* the success, failure and skipped counters and the collected records as they
\* were, is reported as neither, and the loop goes on to the next file
C23_UnreadableSkipIsUncounted ==
    [][SkipsUnreadable =>
          /\ visited'[Len(visited')].result = "unreadable"
          /\ successCount' = successCount
          /\ failureCount' = failureCount
          /\ skippedCount' = skippedCount
          /\ allReceipts' = allReceipts
          /\ fsys' = fsys
          /\ pc' = "loop" /\ idx' = idx + 1 /\ ret' = ret]_mvars

\* an unreadable existing output was passed over, a later file was processed
\* and main() has returned true
C23_Witness ==
    /\ pc = "done" /\ ret = "true" /\ pipeline = "receipt"
    /\ \E i, j \in DOMAIN visited :
          /\ i < j
          /\ visited[i].result = "unreadable"
          /\ fsIsFile(fsys0, visited[i].out) /\ fsys0[fsAbs(visited[i].out)].k # "json"
          /\ visited[j].result = "success"
    /\ successCount = 1 /\ failureCount = 0 /\ skippedCount = 0
    /\ Len(allReceipts) = 1

\* createSummaryFile has returned: the directory the group files go to, the
\* files that hold something they did not hold before, the discriminant of a
\* record as the specification words it, and the records of one value in the
\* order they were collected
Summed == callee = "createSummaryFile" /\ returned.done
GroupDir ==
    IF fsExists(argument.fs, fsJoin(OutAbs, N("total", ""))) \/ argument.fault # "mkdir"
    THEN fsJoin(OutAbs, N("total", ""))
    ELSE OutAbs
WrittenFiles ==
    {q \in DOMAIN returned.value.fs :
        /\ ~returned.value.fs[q].dir
        /\ q \in DOMAIN argument.fs => argument.fs[q] # returned.value.fs[q]}
Discriminant(r) ==
    IF r.type_code # <<>> THEN r.type_code
    ELSE IF "fields" \in DOMAIN r THEN r.fields.type_code
    ELSE <<>>
Values == {Discriminant(argument.receipts[i]) : i \in DOMAIN argument.receipts} \ {<<>>}
RECURSIVE Select(_, _)
Select(receipts, v) ==
    IF receipts = <<>> THEN <<>>
    ELSE (IF Discriminant(receipts[1]) = v THEN <<receipts[1]>> ELSE <<>>)
         \o Select(Tail(receipts), v)

\* C24: a record without discriminant, at top level and in "fields", is in no
\* summary file createSummaryFile wrote, every file it wrote holds records of
\* one discriminant value, and of two "invoice" records and one without the
\* call into a fresh directory returns one file that holds the two
C24_UngroupedNeverWritten ==
    Summed =>
        /\ \A q \in WrittenFiles \cup Range(returned.value.results) :
              /\ returned.value.fs[q].list # <<>>
              /\ \A i \in DOMAIN returned.value.fs[q].list :
                    /\ Discriminant(returned.value.fs[q].list[i]) # <<>>
                    /\ Discriminant(returned.value.fs[q].list[i])
                           = Discriminant(returned.value.fs[q].list[1])
        /\ (/\ Values = {Invoice}
            /\ Len(Select(argument.receipts, Invoice)) = 2
            /\ Len(argument.receipts) = 3
            /\ argument.fault = "none"
            /\ Children(argument.fs, GroupDir) = {})
           => /\ Len(returned.value.results) = 1
              /\ WrittenFiles = Range(returned.value.results)
              /\ returned.value.fs[returned.value.results[1]].list
                     = Select(argument.receipts, Invoice)

\* two "invoice" records around one without discriminant were summarized into
\* one file holding the two
C24_Witness ==
    /\ Summed
    /\ Len(argument.receipts) = 3
    /\ Discriminant(argument.receipts[1]) = Invoice
    /\ Discriminant(argument.receipts[2]) = <<>>
    /\ "fields" \in DOMAIN argument.receipts[3]
    /\ Discriminant(argument.receipts[3]) = Invoice
    /\ Cardinality(WrittenFiles) = 1
    /\ \A q \in WrittenFiles : Len(returned.value.fs[q].list) = 2

\* C25 as stated: with overwrite on or nothing in the directory, and no write
\* or mkdir error, every discriminant value of the collected records has a
\* file under "total" that holds the records of that value in the order
\* they were collected
C25_EveryValueHasItsFile ==
    (/\ Summed
     /\ argument.fault = "none"
     /\ argument.overwrite \/ Children(argument.fs, GroupDir) = {})
    => \A v \in Values :
          \E q \in Children(returned.value.fs, fsJoin(OutAbs, N("total", ""))) :
              /\ q \in Range(returned.value.results)
              /\ returned.value.fs[q].list = Select(argument.receipts, v)

\* the group file of a discriminant value
GroupFile(v) ==
    fsJoin(GroupDir, N("receipts_" \o Text(sanitizeFileName(v)),
                       "." \o argument.outputFormat))
HoldsGroup(q) ==
    /\ fsIsFile(returned.value.fs, q)
    /\ returned.value.fs[q].k = argument.outputFormat
    /\ \E v \in Values : q = GroupFile(v)
                         /\ returned.value.fs[q].list = Select(argument.receipts, v)

\* C30: createSummaryFile decides for each group file on its own: with
\* overwrite off a file that is there is left as it was and is not
\* returned, one that is not there is written and returned; with overwrite
\* on every group file is written anew and returned (a failed write aside,
\* and "general" has no group file)
C30_SkipPolicyPerGroupFile ==
    Summed =>
        \A v \in Values \ {General} :
            IF ~argument.overwrite /\ fsExists(argument.fs, GroupFile(v))
            THEN /\ returned.value.fs[GroupFile(v)] = argument.fs[GroupFile(v)]
                 /\ GroupFile(v) \notin Range(returned.value.results)
            ELSE argument.fault # "write" =>
                     /\ HoldsGroup(GroupFile(v))
                     /\ GroupFile(v) \in Range(returned.value.results)
                     /\ GroupFile(v) \in WrittenFiles

\* with overwrite off the summary of the earlier run was left alone and the
\* file of another group was written in the same call
C30_Witness ==
    /\ Summed /\ ~argument.overwrite /\ argument.fault = "none"
    /\ Values = {Invoice, TypeAB}
    /\ fsExists(argument.fs, GroupFile(Invoice))
    /\ returned.value.fs[GroupFile(Invoice)] = OldList(argument.outputFormat)
    /\ returned.value.results = <<GroupFile(TypeAB)>>
    /\ GroupFile(TypeAB) \notin DOMAIN argument.fs

\* sanitizeFileName has returned; the letters, digits and hyphens of a name
\* in their order
Sanitized == callee = "sanitizeFileName" /\ returned.done
NoEdgeOrDoubleUnderscore(name) ==
    /\ \A i \in 1..(Len(name) - 1) : ~(name[i] = "_" /\ name[i + 1] = "_")
    /\ name # <<>> => name[1] # "_" /\ name[Len(name)] # "_"
RECURSIVE Solid(_)
Solid(name) ==
    IF name = <<>> THEN <<>>
    ELSE (IF lower(name[1]) \in (Range(LowerCase) \cup Range(Digits) \cup {"-"})
          THEN <<lower(name[1])>> ELSE <<>>) \o Solid(Tail(name))

\* C26 as stated: the sanitized name consists of the letters a-z, digits and
\* single underscores only, hyphens having become underscores, and neither
\* starts nor ends with an underscore
C26_OnlyAlphanumericsAndUnderscore ==
    Sanitized =>
        /\ \A i \in DOMAIN returned.value :
              returned.value[i] \in Range(LowerCase) \cup Range(Digits) \cup {"_"}
        /\ NoEdgeOrDoubleUnderscore(returned.value)

\* C26 amended: the sanitized name consists of the letters a-z, digits,
\* hyphens and single underscores, neither starts nor ends with an
\* underscore, and keeps the letters (lower-cased), digits and hyphens of the
\* value in their order
C26_HyphensAreKept ==
    Sanitized =>
        /\ \A i \in DOMAIN returned.value :
              returned.value[i] \in Range(LowerCase) \cup Range(Digits) \cup {"_", "-"}
        /\ NoEdgeOrDoubleUnderscore(returned.value)
        /\ argument # <<>> => Solid(returned.value) = Solid(argument)

\* a value with an upper-case letter, a hyphen and a blank was sanitized
C26_Witness ==
    /\ Sanitized
    /\ argument = <<"Z", "-", " ">>
    /\ returned.value = <<"z", "-">>

\* flattenObject has returned for a record, and for its own result
Flattened == callee = "flattenObject" /\ returned.done /\ ~argument.again
FlattenedTwice == callee = "flattenObject" /\ returned.done /\ argument.again
KeysOf(obj) == {obj.items[i].k : i \in DOMAIN obj.items}
Compound(value) == value.t \in {"object", "array"}

\* C27 as stated: the flattened record has the entries of a nested object
\* under dot-joined keys and those of "fields" under their own keys, has no
\* key "type-code", and none of its values is an object or an array, an
\* array having become one string
C27_ResultIsFlat ==
    Flattened =>
        /\ KeyTypeCode \notin KeysOf(returned.value)
        /\ \A i \in DOMAIN argument.obj.items :
              LET e == argument.obj.items[i]
              IN  /\ (e.v.t = "object" /\ e.k \notin {KeyFields, KeyTypeCode}) =>
                         \A j \in DOMAIN e.v.items :
                             ~Compound(e.v.items[j].v) =>
                                 (e.k \o <<".">> \o e.v.items[j].k) \in KeysOf(returned.value)
                  /\ (e.v.t = "object" /\ e.k = KeyFields) =>
                         \A j \in DOMAIN e.v.items :
                             e.v.items[j].k # KeyTypeCode =>
                                 e.v.items[j].k \in KeysOf(returned.value)
                  /\ (e.v.t = "array" /\ e.k # KeyTypeCode) =>
                         Get(returned.value, e.k).t = "string"
        /\ \A i \in DOMAIN returned.value.items : ~Compound(returned.value.items[i].v)

\* C28 as stated: flattening the flattened record gives it back, and a
\* record without object and array values is flattened to its own entries
\* without the one under "type-code"
C28_FlattenIsIdempotent ==
    /\ FlattenedTwice => returned.value = argument.obj
    /\ (Flattened /\ \A i \in DOMAIN argument.obj.items : ~Compound(argument.obj.items[i].v))
       => returned.value.items
              = SelectSeq(argument.obj.items, LAMBDA e : e.k # KeyTypeCode)

\* the text of a table read back: rows of cells, a quoted cell running to
\* its closing quote with a doubled quote read as one
RECURSIVE ReadCsv(_, _, _, _)
ReadCsv(text, quoted, cell, row) ==
    IF text = <<>> THEN <<Append(row, cell)>>
    ELSE IF quoted
    THEN IF text[1] = "\"" /\ Len(text) >= 2 /\ text[2] = "\""
         THEN ReadCsv(Tail(Tail(text)), TRUE, Append(cell, "\""), row)
         ELSE IF text[1] = "\"" THEN ReadCsv(Tail(text), FALSE, cell, row)
         ELSE ReadCsv(Tail(text), TRUE, Append(cell, text[1]), row)
    ELSE IF text[1] = "\"" THEN ReadCsv(Tail(text), TRUE, cell, row)
    ELSE IF text[1] = "," THEN ReadCsv(Tail(text), FALSE, <<>>, Append(row, cell))
    ELSE IF text[1] = "\n" THEN <<Append(row, cell)>> \o ReadCsv(Tail(text), FALSE, <<>>, <<>>)
    ELSE ReadCsv(Tail(text), FALSE, Append(cell, text[1]), row)

Tabled == callee = "createTotalCsv" /\ returned.done /\ argument # <<>>
Table == ReadCsv(returned.value, FALSE, <<>>, <<>>)

\* C29 as stated: the table createTotalCsv wrote reads back as one header
\* row and one row per receipt, every row with as many cells as the header,
\* and a string cell reads back as the string it was written from
C29_RowsMatchHeader ==
    Tabled =>
        /\ Len(Table) = 1 + Len(argument)
        /\ \A r \in DOMAIN Table : Len(Table[r]) = Len(Table[1])
        /\ \A r \in DOMAIN argument : \A c \in DOMAIN Table[1] :
              LET value == Get(flattenObject(argument[r], <<>>), Table[1][c])
              IN  value.t = "string" => Table[r + 1][c] = value.s

----------------------------------------------------------------------------

\* createSummaryFile has returned for a list and for the two sides of a split
\* of it; the names of the group files a call left in its output directory
SplitDone == callee = "createSummaryFile of a split" /\ returned.done
GroupNames(res) == {Last(q) : q \in {q \in DOMAIN res.fs : ~res.fs[q].dir}}

\* C31: for every list of records and every split of it into two sub-lists,
\* the group file names written for the whole list into an empty directory
\* are those written for the first sub-list together with those written for
\* the second, each into an empty directory
C31_GroupingIgnoresTheSplit ==
    SplitDone =>
        /\ GroupNames(returned.value.whole)
               = GroupNames(returned.value.a) \cup GroupNames(returned.value.b)
        /\ GroupNames(returned.value.whole)
               = {Last(q) : q \in Range(returned.value.whole.results)}

\* three records of two types split so that each side holds records of one
\* type and one side files two records
C31_Witness ==
    /\ SplitDone
    /\ Len(argument.receipts) = 3
    /\ argument.inA = <<TRUE, FALSE, TRUE>>
    /\ Cardinality(GroupNames(returned.value.whole)) = 2
    /\ Cardinality(GroupNames(returned.value.a)) = 1
    /\ Cardinality(GroupNames(returned.value.b)) = 1
    /\ GroupNames(returned.value.a) # GroupNames(returned.value.b)

----------------------------------------------------------------------------

\* the files the first run counted as success or skipped, as positions of
\* its visits, and the real-work invocations the second run has made for a
\* file
Counted == {i \in DOMAIN earlier.visited : earlier.visited[i].result \in {"success", "skipped"}}
WorkFor(f) == {k \in WorkCalls : calls[k].file = f}
\* the second run has left the output of the i-th visit of the first run
\* as the first run left it
OutputKept(i) ==
    fsExists(earlier.fsys, earlier.visited[i].out) =>
        /\ fsExists(fsys, earlier.visited[i].out)
        /\ fsys[fsAbs(earlier.visited[i].out)]
               = earlier.fsys[fsAbs(earlier.visited[i].out)]
SecondRunEnded == earlier.ran /\ pc = "done" /\ ret = "true"

\* C32 as stated: in the second of two runs of the same batch with overwrite
\* off no tool is invoked for a file the first run counted as success or
\* skipped, every per-file output of the first run stays as it was, and a
\* second run that came to its end has skipped at least as many files as
\* the first run counted as success or skipped
C32_SecondRunSkipsTheFirst ==
    earlier.ran =>
        /\ \A i \in Counted : WorkFor(earlier.visited[i].file) = {}
        /\ \A i \in DOMAIN earlier.visited : OutputKept(i)
        /\ SecondRunEnded => ResultCount("skipped") >= Cardinality(Counted)

\* C32: in the second of two runs of the same batch with overwrite off no
\* tool is invoked for a file the first run counted as success or skipped
\* and every per-file output of the first run stays as it was; a second run
\* that came to its end has passed over each of these files, counting it
\* as skipped unless reading its existing receipt failed, so the skipped
\* files and the files whose read failed are together at least as many as
\* the first run counted as success or skipped
C32_SecondRunSkipsWhatItReads ==
    earlier.ran =>
        /\ \A i \in Counted : WorkFor(earlier.visited[i].file) = {}
        /\ \A i \in DOMAIN earlier.visited : OutputKept(i)
        /\ SecondRunEnded =>
              /\ \A i \in Counted : \E j \in DOMAIN visited :
                    /\ visited[j].file = earlier.visited[i].file
                    /\ visited[j].result \in {"skipped", "unreadable"}
                    /\ visited[j].result = "unreadable" =>
                          /\ pipeline = "receipt"
                          /\ fsys[fsAbs(visited[j].out)].k = "json"
              /\ ResultCount("skipped") + ResultCount("unreadable")
                     >= Cardinality(Counted)
              /\ ResultCount("unreadable") = 0 =>
                     ResultCount("skipped") >= Cardinality(Counted)

\* the first run processed one file with success and failed on another, the
\* second run skipped the first file and processed the other with success
C32_Witness ==
    /\ SecondRunEnded
    /\ Len(earlier.visited) = 2 /\ Len(visited) >= 2
    /\ earlier.visited[1].result = "success" /\ earlier.visited[2].result = "failure"
    /\ visited[1].file = earlier.visited[1].file /\ visited[1].result = "skipped"
    /\ visited[2].file = earlier.visited[2].file /\ visited[2].result = "success"
    /\ WorkFor(visited[2].file) # {}

----------------------------------------------------------------------------

\* the real-work invocations of the tool t for the file f that have begun
Invocations(t, f) ==
    {k \in WorkCalls : calls[k].ev = "begin" /\ calls[k].tool = t /\ calls[k].file = f}

\* C33: within one run every tool is invoked for real work at most once for
\* each file (doc-to-text, llm-caller, ffmpeg alike), also for a file that
\* failed, and for no file other than the discovered ones
C33_NothingIsRetried ==
    /\ \A k \in WorkCalls : calls[k].file \in Range(documentFiles)
    /\ \A t \in ToolsOf(pipeline) : \A f \in Range(documentFiles) :
          Cardinality(Invocations(t, f)) <= 1
    /\ \A i \in DOMAIN visited :
          visited[i].result \in {"skipped", "unreadable"} =>
              \A t \in ToolsOf(pipeline) : Invocations(t, visited[i].file) = {}

\* a run that came to its end after a tool failed on its first file: the
\* tool was invoked once for that file and the next file was processed
C33_Witness ==
    /\ pc = "done" /\ ret = "true"
    /\ Len(visited) = 2
    /\ visited[1].result = "failure" /\ visited[2].result = "success"
    /\ \E t \in ToolsOf(pipeline) :
          /\ Cardinality(Invocations(t, visited[1].file)) = 1
          /\ \E j \in StageOf(visited[1].file) : stages[j].toolError

----------------------------------------------------------------------------

\* C34 as stated: the text a file's pipeline has read as its extraction
\* result was written by doc-to-text for that same file, in this run or as
\* the cached text of that file, never for another file
C34_TextComesFromItsOwnFile ==
    (JustStaged /\ LastStage.used # NoPath) =>
        /\ fsExists(fsys, LastStage.used)
        /\ fsys[fsAbs(LastStage.used)].rec.source_file = fsBasename(LastStage.file)

----------------------------------------------------------------------------

\* the per-file output the loop resolves for the i-th discovered file
OutputOf(i) ==
    OutputFileOf(pipeline, fsys, documentFiles[i], outputPath, isBatchProcessing)

\* C35 as stated: in a batch run two different discovered files never
\* resolve to the same per-file output path, and no discovered file is
\* itself the output path of another
C35_OutputsAreDistinct ==
    (pc = "loop" /\ isBatchProcessing) =>
        \A i, j \in DOMAIN documentFiles :
            i # j => /\ OutputOf(i) # OutputOf(j)
                     /\ OutputOf(i) # documentFiles[j]

----------------------------------------------------------------------------

\* the step of the text extraction loop that counts its file as failed
FailsTextFile ==
    /\ pipeline = "text" /\ AtFile
    /\ failureCount' = failureCount + 1

\* C36 as stated: a step of text extraction that counts its file as failed
\* leaves no file at the resolved output path that was not there before,
\* and leaves a file that was there as it was
C36_FailureLeavesNoOutput ==
    [][FailsTextFile =>
          IF fsExists(fsys, CurrentOutput)
          THEN fsExists(fsys', CurrentOutput)
               /\ fsys'[fsAbs(CurrentOutput)] = fsys[fsAbs(CurrentOutput)]
          ELSE ~fsExists(fsys', CurrentOutput)]_mvars

----------------------------------------------------------------------------

\* a receipt batch has come to its end; the discriminant values of the
\* records it collected and the summary file of a value
BatchEnded == pipeline = "receipt" /\ isBatchProcessing /\ pc = "done" /\ ret = "true"
CollectedValues == {Discriminant(allReceipts[i]) : i \in DOMAIN allReceipts} \ {<<>>}
SummaryOf(v) ==
    fsJoin(fsJoin(IF outputPath # NoPath THEN outputPath ELSE inputPath, N("total", "")),
           N("receipts_" \o Text(sanitizeFileName(v)), "." \o vars.format))

\* C37 as stated: after a receipt batch the summary file of every group the
\* run collected a record of, when it is on disk, holds the records the run
\* collected for that group, resumed and new, in their order, also when the
\* file was there before the run and overwrite is off
C37_SummaryHoldsThisRun ==
    BatchEnded =>
        \A v \in CollectedValues :
            fsExists(fsys, SummaryOf(v)) =>
                fsys[fsAbs(SummaryOf(v))].list = Select(allReceipts, v)

----------------------------------------------------------------------------

\* C38 as stated: within one createSummaryFile call two different
\* discriminant values never give the same group file path
C38_GroupPathsAreDistinct ==
    Summed =>
        \A v, w \in Values \ {General} : v # w => GroupFile(v) # GroupFile(w)

----------------------------------------------------------------------------

\* C39: in the media pipeline every real-work invocation is one of ffmpeg,
\* "-y" is among its arguments exactly when overwrite is on, and an
\* invocation whose output path existed when it started has "-y"; with
\* overwrite off a file whose output exists is skipped without invocation
C39_ExistingOutputNeedsYes ==
    pipeline = "media" =>
        /\ \A k \in WorkCalls :
              /\ calls[k].tool = "ffmpeg"
              /\ calls[k].yes = overwrite
              /\ calls[k].there => calls[k].yes
        /\ \A i \in DOMAIN visited :
              (~overwrite /\ fsExists(fsys0, visited[i].out)) =>
                  /\ visited[i].result = "skipped"
                  /\ WorkFor(visited[i].file) = {}

\* ffmpeg was invoked with "-y" on an output that existed and the file was
\* converted
C39_Witness ==
    /\ pipeline = "media" /\ overwrite
    /\ visited # <<>> /\ visited[1].result = "success"
    /\ \E k \in WorkCalls :
          calls[k].there /\ calls[k].yes /\ calls[k].ev = "end"

----------------------------------------------------------------------------

\* main() stopped on a precondition: the help flag of the media script, or
\* an error it reported
StoppedEarly == (pipeline = "media" /\ vars.help) \/ msgs # <<>>

\* C40: main() has returned nothing while it runs; once discovery has found
\* a file it returns true at its end whatever the outcomes of the files;
\* when it returns false it stopped on a precondition, has visited no file
\* and has invoked no tool for real work
C40_TrueOncePastPreconditions ==
    /\ pc # "done" => ret = "none"
    /\ pc = "done" => ret \in {"true", "false"}
    /\ (pc = "done" /\ documentFiles # <<>>) => ret = "true"
    /\ ret = "true" =>
          /\ Len(visited) = Len(documentFiles)
          /\ \A j \in DOMAIN probes : probes[j].ok
    /\ ret = "false" =>
          /\ StoppedEarly
          /\ documentFiles = <<>> /\ visited = <<>>
          /\ WorkCalls = {}
          /\ successCount = 0 /\ failureCount = 0 /\ skippedCount = 0

\* a run in which every file failed and main() returned true
C40_Witness ==
    /\ pc = "done" /\ ret = "true"
    /\ Len(visited) = 2
    /\ \A i \in DOMAIN visited : visited[i].result = "failure"
    /\ successCount = 0 /\ failureCount = 2

====
